---- MODULE Spec2Model ----
(***************************************************************************)
(* Model of the proximity-scoring ETL of Neighborhood Insights             *)
(* (etl/calculate_distances.py): load_pois, create_neighborhoods,          *)
(* find_nearest_pois, calculate_scores, export_for_frontend and main.      *)
(*                                                                         *)
(* The other programs of the repository follow, each with its own          *)
(* variables and its own specification: the geocoder and its Nominatim     *)
(* client (etl/get_long_lat_from_address.py), the CBS regions loader       *)
(* (etl/cbs_regions_loader.py), the GovMap fetcher                         *)
(* (etl/get_data_from_gov_maps.py), GET /address/search (api/main.py) and  *)
(* the routes under /pois/ (backend/main.py).  While one program runs the  *)
(* variables of the others keep the value <<>>.                            *)
(*                                                                         *)
(* Fixed-point conventions (the code uses binary floating point):          *)
(*   latitude, longitude     integers, micro-degrees                       *)
(*   angular distance        integers, 1e-7 radian                         *)
(*   *_distance_km columns   integers, 1/100 km (the code rounds to 2      *)
(*                           decimals)                                     *)
(*   raw scores              integers, numerator over ScoreDen             *)
(*   composite_score         integers, 1/10 point (the code rounds to 1    *)
(*                           decimal)                                      *)
(* Scores are computed in exact rational arithmetic; numpy's round is      *)
(* round-half-to-even, modelled by RoundHalfEven.                          *)
(***************************************************************************)
EXTENDS Integers, Sequences, FiniteSets, TLC

VARIABLES
    raw_dir,                      \* RAW_DIR: category -> state of its CSV file
    tie_rule,                     \* how the BallTree resolves equidistant POIs
    pc,                           \* position of main()
    run,                          \* number of the current run of main()
    pois,                         \* main: pois
    neighborhoods_df,             \* main: neighborhoods_df
    neighborhoods_with_distances, \* main: neighborhoods_with_distances
    final_df,                     \* main: final_df
    score_components,             \* calculate_scores: score_components of each row
    processed_dir,                \* PROCESSED_DIR/neighborhoods_with_distances.csv
    public_dir,                   \* PUBLIC_DIR: the three exported files
    prev_outputs                  \* outputs left by the previous run (history)

vars == <<raw_dir, tie_rule, pc, run, pois, neighborhoods_df,
          neighborhoods_with_distances, final_df, score_components,
          processed_dir, public_dir, prev_outputs>>

----------------------------------------------------------------------------
(* The other programs of the repository *)

\* etl/get_long_lat_from_address.py, main
VARIABLES
    geo_pc,                       \* position of main()
    geo_run,                      \* number of the current run of main()
    args,                         \* the parsed command line
    df_in,                        \* the rows of the input XLSX
    out_file,                     \* the file at args.out
    tmp_file,                     \* the file at args.out + '.tmp'
    df_out,                       \* main: df_out
    pending_keys,                 \* main: pending_keys
    next_key,                     \* main: position of the loop in pending_keys
    fresh,                        \* main: fresh
    since_last_checkpoint,        \* main: since_last_checkpoint
    resume,                       \* main: where main goes on after the current write
    service,                      \* how Nominatim answers, per address
    sent,                         \* the address keys sent to the service in this run (history)
    cache_at_start,               \* the file at args.out when this run started (history)
    flushes,                      \* the number of addresses sent so far at each write of this run (history)
    interrupted                   \* the places where earlier runs of main were stopped

geocoder_vars ==
    <<geo_pc, geo_run, args, df_in, out_file, tmp_file, df_out,
      pending_keys, next_key, fresh, since_last_checkpoint, resume,
      service, sent, cache_at_start, flushes, interrupted>>

\* the geocoder is not running
geocoder_idle ==
    /\ geo_pc = <<>>
    /\ geo_run = <<>>
    /\ args = <<>>
    /\ df_in = <<>>
    /\ out_file = <<>>
    /\ tmp_file = <<>>
    /\ df_out = <<>>
    /\ pending_keys = <<>>
    /\ next_key = <<>>
    /\ fresh = <<>>
    /\ since_last_checkpoint = <<>>
    /\ resume = <<>>
    /\ service = <<>>
    /\ sent = <<>>
    /\ cache_at_start = <<>>
    /\ flushes = <<>>
    /\ interrupted = <<>>

\* etl/get_long_lat_from_address.py, NominatimClient
VARIABLES
    cl_pc,                        \* position of geocode()
    now,                          \* time.monotonic(), in tenths of a second
    min_interval_s,               \* self.min_interval_s, in tenths of a second
    last_ts,                      \* self._last_ts, in tenths of a second
    retries,                      \* geocode: retries
    attempt,                      \* geocode: attempt
    last_err,                     \* geocode: last_err
    answers,                      \* what the service answered to each request of this call (history)
    result,                       \* what geocode returned
    calls,                        \* number of calls of geocode so far
    recent                        \* the times the latest two requests were sent (history)

client_vars ==
    <<cl_pc, now, min_interval_s, last_ts, retries, attempt, last_err,
      answers, result, calls, recent>>

\* no NominatimClient has been made
client_idle ==
    /\ cl_pc = <<>>
    /\ now = <<>>
    /\ min_interval_s = <<>>
    /\ last_ts = <<>>
    /\ retries = <<>>
    /\ attempt = <<>>
    /\ last_err = <<>>
    /\ answers = <<>>
    /\ result = <<>>
    /\ calls = <<>>
    /\ recent = <<>>

\* etl/cbs_regions_loader.py, load_cbs_statistical_areas
VARIABLES
    cbs_pc,                       \* position of load_cbs_statistical_areas
    regions,                      \* the committed rows of the table regions
    tx_regions,                   \* the rows of regions as the open transaction sees them
    seen,                         \* the rows of gdf iterated so far in this load (history)
    inserted,                     \* load_cbs_statistical_areas: inserted
    updated,                      \* load_cbs_statistical_areas: updated
    cbs_loads,                    \* number of loads started so far
    cbs_returned                  \* what the latest load returned

cbs_vars ==
    <<cbs_pc, regions, tx_regions, seen, inserted, updated, cbs_loads,
      cbs_returned>>

\* the CBS regions loader is not running
cbs_idle ==
    /\ cbs_pc = <<>>
    /\ regions = <<>>
    /\ tx_regions = <<>>
    /\ seen = <<>>
    /\ inserted = <<>>
    /\ updated = <<>>
    /\ cbs_loads = <<>>
    /\ cbs_returned = <<>>

\* api/main.py, GET /address/search
VARIABLES
    api_pc,                       \* position of the request in flight
    api_request,                  \* the request in flight
    api_log                       \* the requests answered so far, each with its response (history)

api_vars ==
    <<api_pc, api_request, api_log>>

\* the API is not serving
api_idle ==
    /\ api_pc = <<>>
    /\ api_request = <<>>
    /\ api_log = <<>>

\* etl/get_data_from_gov_maps.py, fetch_all_geojson
VARIABLES
    gm_pc,                        \* position of fetch_all_geojson
    server_features,              \* the number of features the layer has on the server
    hits_answer,                  \* what the hits request returns: the number of features or None
    total_hits,                   \* fetch_all_geojson: total
    start,                        \* fetch_all_geojson: start
    chunks,                       \* fetch_all_geojson: chunks
    requested                     \* the pages requested so far, each with its start index and count (history)

govmap_vars ==
    <<gm_pc, server_features, hits_answer, total_hits, start, chunks,
      requested>>

\* fetch_all_geojson is not running
govmap_idle ==
    /\ gm_pc = <<>>
    /\ server_features = <<>>
    /\ hits_answer = <<>>
    /\ total_hits = <<>>
    /\ start = <<>>
    /\ chunks = <<>>
    /\ requested = <<>>

\* backend/main.py, the routes under /pois/
VARIABLES
    pois_data,                    \* pois_data
    be_pc,                        \* position of the request in flight
    be_request,                   \* the request in flight
    be_log                        \* the requests answered so far, each with its response (history)

backend_vars ==
    <<pois_data, be_pc, be_request, be_log>>

\* the backend is not serving
backend_idle ==
    /\ pois_data = <<>>
    /\ be_pc = <<>>
    /\ be_request = <<>>
    /\ be_log = <<>>

\* the scoring ETL is not running
etl_idle ==
    /\ raw_dir = <<>>
    /\ tie_rule = <<>>
    /\ pc = <<>>
    /\ run = <<>>
    /\ pois = <<>>
    /\ neighborhoods_df = <<>>
    /\ neighborhoods_with_distances = <<>>
    /\ final_df = <<>>
    /\ score_components = <<>>
    /\ processed_dir = <<>>
    /\ public_dir = <<>>
    /\ prev_outputs = <<>>

\* the variables of the programs other than the scoring ETL
not_etl == <<geocoder_vars, client_vars, cbs_vars, api_vars, govmap_vars, backend_vars>>

not_etl_idle ==
    /\ geocoder_idle
    /\ client_idle
    /\ cbs_idle
    /\ api_idle
    /\ govmap_idle
    /\ backend_idle

\* the variables of the programs other than the geocoder
not_geocoder == <<vars, client_vars, cbs_vars, api_vars, govmap_vars, backend_vars>>

not_geocoder_idle ==
    /\ etl_idle
    /\ client_idle
    /\ cbs_idle
    /\ api_idle
    /\ govmap_idle
    /\ backend_idle

\* the variables of the programs other than the Nominatim client
not_client == <<vars, geocoder_vars, cbs_vars, api_vars, govmap_vars, backend_vars>>

not_client_idle ==
    /\ etl_idle
    /\ geocoder_idle
    /\ cbs_idle
    /\ api_idle
    /\ govmap_idle
    /\ backend_idle

\* the variables of the programs other than the CBS regions loader
not_cbs == <<vars, geocoder_vars, client_vars, api_vars, govmap_vars, backend_vars>>

not_cbs_idle ==
    /\ etl_idle
    /\ geocoder_idle
    /\ client_idle
    /\ api_idle
    /\ govmap_idle
    /\ backend_idle

\* the variables of the programs other than the API
not_api == <<vars, geocoder_vars, client_vars, cbs_vars, govmap_vars, backend_vars>>

not_api_idle ==
    /\ etl_idle
    /\ geocoder_idle
    /\ client_idle
    /\ cbs_idle
    /\ govmap_idle
    /\ backend_idle

\* the variables of the programs other than the GovMap fetcher
not_govmap == <<vars, geocoder_vars, client_vars, cbs_vars, api_vars, backend_vars>>

not_govmap_idle ==
    /\ etl_idle
    /\ geocoder_idle
    /\ client_idle
    /\ cbs_idle
    /\ api_idle
    /\ backend_idle

\* the variables of the programs other than the backend
not_backend == <<vars, geocoder_vars, client_vars, cbs_vars, api_vars, govmap_vars>>

not_backend_idle ==
    /\ etl_idle
    /\ geocoder_idle
    /\ client_idle
    /\ cbs_idle
    /\ api_idle
    /\ govmap_idle

----------------------------------------------------------------------------
(* Bounds *)

\* Each category's CSV holds at most MaxPois rows.
MaxPois == 3

\* main() is run at most MaxRuns times on the same RAW_DIR.
MaxRuns == 2

\* The largest input XLSX of the geocoder has MaxRows rows.
MaxRows == 27

\* The geocoder is run at most MaxGeocoderRuns times on the same input.
MaxGeocoderRuns == 2

\* One NominatimClient serves at most MaxCalls calls of geocode.
MaxCalls == 2

\* A CBS shapefile has at most MaxFeatures features.
MaxFeatures == 3

\* The CBS regions loader is run at most MaxLoads times on one database.
MaxLoads == 2

\* The query parameter q of /address/search has at most MaxQueryLen characters.
MaxQueryLen == 4

\* The API answers at most MaxRequests requests.
MaxRequests == 2

\* A GovMap layer has at most MaxPages full pages of features.
MaxPages == 3

\* The backend answers at most MaxBackendRequests requests.
MaxBackendRequests == 2

----------------------------------------------------------------------------
(* Generic helpers *)

Range(s) == {s[i] : i \in 1..Len(s)}

Max(a, b) == IF a >= b THEN a ELSE b

RECURSIVE SumSeq(_)
SumSeq(s) == IF s = <<>> THEN 0 ELSE Head(s) + SumSeq(Tail(s))

RECURSIVE Gcd(_, _)
Gcd(a, b) == IF b = 0 THEN a ELSE Gcd(b, a % b)

Lcm(a, b) == (a * b) \div Gcd(a, b)

\* round(x) of numpy for x = num/den >= 0: nearest integer, ties to even.
RoundHalfEven(num, den) ==
    LET q == num \div den
        r == num % den
    IN  IF 2 * r > den \/ (2 * r = den /\ q % 2 = 1) THEN q + 1 ELSE q

----------------------------------------------------------------------------
(* DataFrames: a sequence of column names and a sequence of rows, each row *)
(* a function from the column names to values.                             *)

EmptyDf == [columns |-> <<>>, rows |-> <<>>]

HasColumn(df, col) == col \in Range(df.columns)

\* df[col] = values
SetColumn(df, col, values) ==
    [columns |-> IF HasColumn(df, col) THEN df.columns ELSE Append(df.columns, col),
     rows    |-> [i \in 1..Len(df.rows) |-> (col :> values[i]) @@ df.rows[i]]]

----------------------------------------------------------------------------
(* load_pois *)

Categories == {"schools", "kindergartens", "clinics", "bus_stops"}

\* poi_files, in dict order
poi_files == <<"schools", "kindergartens", "clinics", "bus_stops">>

\* Candidate POI coordinates (micro-degrees).  Sites 1 and 2 are the
\* centroids of neighborhoods 1 and 8; the others lie 1.11, 0.50, 1.00,
\* 2.00, 3.00 and 0.22 km from neighborhoods 1, 3, 7, 10, 2 and 5.
Sites ==
    << <<32113000, 34800000>>, <<32051000, 34768000>>, <<32123000, 34800000>>,
       <<31775500, 35214100>>, <<32819000, 34994000>>, <<32345000, 34857000>>,
       <<32100000, 34811000>>, <<32060000, 34764000>> >>

\* A CSV row.  latitude_is tells what read_csv made of the latitude cell: a
\* float, NaN (the cell is empty) or a str (the cell holds text); the latitude
\* field holds the number only when latitude_is = "float".
CsvRow(id, name, site) ==
    [id |-> id, name_he |-> name, latitude |-> Sites[site][1],
     longitude |-> Sites[site][2], address |-> "addr", latitude_is |-> "float"]

\* A row whose latitude cell is empty (cell = "nan") or text (cell = "str").
BadRow(id, name, cell) ==
    [id |-> id, name_he |-> name, latitude |-> 0,
     longitude |-> Sites[1][2], address |-> "addr", latitude_is |-> cell]

\* The rows a category's CSV may hold, in file order.
Catalogue ==
    [schools       |-> <<CsvRow(11, "school_a", 7), CsvRow(12, "school_b", 1),
                         CsvRow(13, "school_c", 6), CsvRow(14, "school_d", 3)>>,
     kindergartens |-> <<CsvRow(21, "kinder_a", 5), CsvRow(22, "kinder_b", 2),
                         CsvRow(23, "kinder_c", 4), CsvRow(24, "kinder_d", 8)>>,
     clinics       |-> <<CsvRow(31, "clinic_a", 3), CsvRow(32, "clinic_b", 7),
                         CsvRow(33, "clinic_c", 1), CsvRow(34, "clinic_d", 6)>>,
     bus_stops     |-> <<CsvRow(41, "bus_a", 8), CsvRow(42, "bus_b", 8),
                         CsvRow(43, "bus_c", 4), CsvRow(44, "bus_d", 2)>>]

\* The states of RAW_DIR/govmap_<category>.csv: no such file, a CSV without
\* latitude/longitude columns, a CSV with the columns and the first n rows
\* of the catalogue, 0 <= n <= MaxPois, or a CSV with the columns whose
\* second row has an empty or a text latitude cell.
FileStates(c) ==
    LET m == IF MaxPois < Len(Catalogue[c]) THEN MaxPois ELSE Len(Catalogue[c])
    IN  {[kind |-> "absent", rows |-> <<>>], [kind |-> "no_latlon", rows |-> <<>>]}
        \cup {[kind |-> "csv", rows |-> SubSeq(Catalogue[c], 1, n)] : n \in 0..m}
        \cup {[kind |-> "csv", rows |-> <<Catalogue[c][1], BadRow(0, "bad_row", cell)>>] :
                  cell \in {"nan", "str"}}

\* df[['id', 'name_he', 'latitude', 'longitude']].copy() with df['type'] = poi_type
PoiRow(r, poi_type) ==
    [id |-> r.id, name_he |-> r.name_he, latitude |-> r.latitude,
     longitude |-> r.longitude, type |-> poi_type, latitude_is |-> r.latitude_is]

load_pois(dir) ==
    [c \in {t \in Categories : dir[t].kind = "csv"} |->
        [i \in 1..Len(dir[c].rows) |-> PoiRow(dir[c].rows[i], c)]]

\* pois.items(): the loaded categories in insertion order
PoiItems(p) == SelectSeq(poi_files, LAMBDA c : c \in DOMAIN p)

----------------------------------------------------------------------------
(* create_neighborhoods *)

Hood(id, name_he, name_en, city, lat, lon) ==
    [id |-> id, name_he |-> name_he, name_en |-> name_en, city |-> city,
     latitude |-> lat, longitude |-> lon]

\* sample_data (the Hebrew names are transliterated)
sample_data ==
    << Hood(1, "Ramat Aviv (he)", "Ramat Aviv", "Tel Aviv", 32113000, 34800000),
       Hood(2, "Givatayim (he)", "Givatayim", "Givatayim", 32073000, 34811000),
       Hood(3, "Rehavia (he)", "Rehavia", "Jerusalem", 31771000, 35214000),
       Hood(4, "Carmel (he)", "Carmel", "Haifa", 32794000, 34989000),
       Hood(5, "Neve Sha'anan (he)", "Neve Sha'anan", "Tel Aviv", 32058000, 34764000),
       Hood(6, "Baka (he)", "Baka", "Jerusalem", 31756000, 35206000),
       Hood(7, "Hadar (he)", "Hadar", "Haifa", 32810000, 34994000),
       Hood(8, "Florentin (he)", "Florentin", "Tel Aviv", 32051000, 34768000),
       Hood(9, "Talbieh (he)", "Talbieh", "Jerusalem", 31770000, 35225000),
       Hood(10, "Ir Yamim (he)", "Ir Yamim", "Netanya", 32327000, 34857000) >>

create_neighborhoods ==
    [columns |-> <<"id", "name_he", "name_en", "city", "latitude", "longitude">>,
     rows    |-> sample_data]

----------------------------------------------------------------------------
(* find_nearest_pois *)

\* Haversine angle (1e-7 rad) between the centroid of neighborhood i of
\* sample_data and site j of Sites:
\*   2 asin sqrt(sin^2(dlat/2) + cos(lat1) cos(lat2) sin^2(dlon/2)),
\* tabulated, since TLA+ has no trigonometry.
HaversineTable ==
  << <<0, 11811, 1745, 85035, 126488, 41357, 2792, 10673>>,
     <<7168, 7429, 8877, 79131, 132962, 47957, 4712, 7312>>,
     <<85572, 82185, 86796, 786, 185768, 113247, 82826, 83598>>,
     <<122073, 133703, 120374, 180838, 4425, 80735, 123931, 132326>>,
     <<10977, 1357, 12531, 82930, 137072, 51940, 10102, 349>>,
     <<86595, 82841, 87856, 3609, 188147, 115036, 83834, 84283>>,
     <<124959, 136590, 123260, 183451, 1571, 83622, 126815, 135213>>,
     <<11811, 0, 13428, 81731, 138113, 52970, 10657, 1679>>,
     <<86867, 83604, 88076, 1881, 186230, 114169, 84128, 85007>>,
     <<38287, 49933, 36586, 109798, 88203, 3142, 40197, 48583>> >>

PointIndex(points, lat, lon) ==
    CHOOSE k \in 1..Len(points) : points[k][1] = lat /\ points[k][2] = lon

HoodPoints == [i \in 1..Len(sample_data) |->
                  <<sample_data[i].latitude, sample_data[i].longitude>>]

\* metric='haversine' of the BallTree, on the radians of the coordinates
haversine(lat1, lon1, lat2, lon2) ==
    IF lat1 = lat2 /\ lon1 = lon2 THEN 0
    ELSE HaversineTable[PointIndex(HoodPoints, lat1, lon1)][PointIndex(Sites, lat2, lon2)]

\* Earth radius in km
EARTH_RADIUS_KM == 6371

\* Variant: the angle is multiplied by the Earth radius in miles.
distance_km_miles(angle) == RoundHalfEven(angle * 3959, 100000)

\* round(dist * 6371, 2): angle (1e-7 rad) to 1/100 km
distance_km(angle) == RoundHalfEven(angle * EARTH_RADIUS_KM, 100000)

\* Variant: the first POI of the table is taken instead of the nearest.
tree_query_first(poi_df, lat, lon, rule) ==
    [dist |-> haversine(lat, lon, poi_df[1].latitude, poi_df[1].longitude), ind |-> 1]

\* Variant: the farthest POI is taken instead of the nearest.
tree_query_farthest(poi_df, lat, lon, rule) ==
    LET d(k) == haversine(lat, lon, poi_df[k].latitude, poi_df[k].longitude)
        ind  == CHOOSE k \in 1..Len(poi_df) : \A j \in 1..Len(poi_df) : d(k) >= d(j)
    IN  [dist |-> d(ind), ind |-> ind]

\* tree.query(hood_coord, k=1): the angle to the nearest POI and its position
\* in poi_df.  Equidistant POIs are resolved by a fixed rule of the tree.
tree_query(poi_df, lat, lon, rule) ==
    LET d(k)   == haversine(lat, lon, poi_df[k].latitude, poi_df[k].longitude)
        best   == CHOOSE k \in 1..Len(poi_df) : \A j \in 1..Len(poi_df) : d(k) <= d(j)
        ties   == {k \in 1..Len(poi_df) : d(k) = d(best)}
        ind    == IF rule = "first"
                  THEN CHOOSE k \in ties : \A j \in ties : k <= j
                  ELSE CHOOSE k \in ties : \A j \in ties : k >= j
    IN  [dist |-> d(ind), ind |-> ind]

distance_col(poi_type) ==
    CASE poi_type = "schools"       -> "schools_distance_km"
      [] poi_type = "kindergartens" -> "kindergartens_distance_km"
      [] poi_type = "clinics"       -> "clinics_distance_km"
      [] poi_type = "bus_stops"     -> "bus_stops_distance_km"

nearest_col(poi_type) ==
    CASE poi_type = "schools"       -> "nearest_schools"
      [] poi_type = "kindergartens" -> "nearest_kindergartens"
      [] poi_type = "clinics"       -> "nearest_clinics"
      [] poi_type = "bus_stops"     -> "nearest_bus_stops"

\* The body of the loop over pois.items() for a category that has POIs
nearest_columns(results, hoods, poi_type, poi_df, rule) ==
    LET q(i) == tree_query(poi_df, hoods.rows[i].latitude,
                           hoods.rows[i].longitude, rule)
        distances == [i \in 1..Len(hoods.rows) |-> distance_km(q(i).dist)]
        nearest_poi_names == [i \in 1..Len(hoods.rows) |-> poi_df[q(i).ind].name_he]
    IN  SetColumn(SetColumn(results, distance_col(poi_type), distances),
                  nearest_col(poi_type), nearest_poi_names)

\* Variant: a category with a single POI is skipped too.
nearest_pass_skips_single(results, hoods, poi_type, poi_df, rule) ==
    IF Len(poi_df) <= 1 THEN results
    ELSE nearest_columns(results, hoods, poi_type, poi_df, rule)

\* Variant: an empty category is recorded as distance 0 with an empty name.
nearest_pass_zero_for_empty(results, hoods, poi_type, poi_df, rule) ==
    IF Len(poi_df) = 0
    THEN SetColumn(SetColumn(results, distance_col(poi_type),
                             [i \in 1..Len(hoods.rows) |-> 0]),
                   nearest_col(poi_type), [i \in 1..Len(hoods.rows) |-> ""])
    ELSE nearest_columns(results, hoods, poi_type, poi_df, rule)

\* One iteration of the loop over pois.items()
nearest_pass(results, hoods, poi_type, poi_df, rule) ==
    IF Len(poi_df) = 0 THEN results
    ELSE nearest_columns(results, hoods, poi_type, poi_df, rule)

\* Variant: the POIs of a category stay in the index of the next category.
RECURSIVE nearest_loop_shared_index(_, _, _, _, _)
nearest_loop_shared_index(results, hoods, p, items, rule) ==
    IF items = <<>> THEN results
    ELSE LET rest == Tail(items)
             q    == IF rest = <<>> THEN p
                     ELSE [p EXCEPT ![Head(rest)] = p[Head(items)] \o @]
         IN  nearest_loop_shared_index(
                 nearest_pass(results, hoods, Head(items), p[Head(items)], rule),
                 hoods, q, rest, rule)

\* The loop over pois.items(), for the categories items in that order
RECURSIVE nearest_loop(_, _, _, _, _)
nearest_loop(results, hoods, p, items, rule) ==
    IF items = <<>> THEN results
    ELSE nearest_loop(nearest_pass(results, hoods, Head(items), p[Head(items)], rule),
                      hoods, p, Tail(items), rule)

find_nearest_pois(hoods, p, rule) == nearest_loop(hoods, hoods, p, PoiItems(p), rule)

\* The exception that building the index of poi_df raises, "" when none:
\* np.radians has no loop for an array that holds a str (TypeError), and
\* BallTree rejects an array that holds NaN (ValueError).
coords_error(poi_df) ==
    IF \E i \in 1..Len(poi_df) : poi_df[i].latitude_is = "str" THEN "TypeError"
    ELSE IF \E i \in 1..Len(poi_df) : poi_df[i].latitude_is = "nan" THEN "ValueError"
    ELSE ""

\* The exception that leaves find_nearest_pois, "" when it returns: that of
\* the first category of pois.items() that is not empty and raises.
find_nearest_pois_raises(p) ==
    LET bad == SelectSeq(PoiItems(p),
                   LAMBDA c : Len(p[c]) > 0 /\ coords_error(p[c]) /= "")
    IN  IF bad = <<>> THEN "" ELSE coords_error(p[Head(bad)])

----------------------------------------------------------------------------
(* calculate_scores *)

\* Variant: the constants of schools and clinics are exchanged.
max_distances_swapped ==
    [schools_distance_km       |-> 300,
     kindergartens_distance_km |-> 100,
     clinics_distance_km       |-> 200,
     bus_stops_distance_km     |-> 50]

\* max_distances, in 1/100 km
max_distances ==
    [schools_distance_km       |-> 200,
     kindergartens_distance_km |-> 100,
     clinics_distance_km       |-> 300,
     bus_stops_distance_km     |-> 50]

\* max_distances.items(), in dict order
max_distances_items ==
    <<"schools_distance_km", "kindergartens_distance_km",
      "clinics_distance_km", "bus_stops_distance_km">>

\* Raw scores are kept as numerators over ScoreDen, the least common multiple
\* of the max distances, so that 100 * (1 - distance / max_dist) is exact.
ScoreDen ==
    Lcm(Lcm(max_distances["schools_distance_km"], max_distances["kindergartens_distance_km"]),
        Lcm(max_distances["clinics_distance_km"], max_distances["bus_stops_distance_km"]))

\* Variant: the score is not clamped at 0.
raw_score_unclamped(distance, max_dist) ==
    (100 * ScoreDen * (max_dist - distance)) \div max_dist

\* Variant: abs() in place of max(0, .).
raw_score_abs(distance, max_dist) ==
    LET v == (100 * ScoreDen * (max_dist - distance)) \div max_dist
    IN  IF v >= 0 THEN v ELSE 0 - v

\* score = max(0, 100 * (1 - distance / max_dist))
raw_score(distance, max_dist) ==
    Max(0, (100 * ScoreDen * (max_dist - distance)) \div max_dist)

\* the inner loop: one score per distance column that df has
row_components(df, row) ==
    LET present == SelectSeq(max_distances_items, LAMBDA col : HasColumn(df, col))
    IN  [k \in 1..Len(present) |-> raw_score(row[present[k]], max_distances[present[k]])]

\* Variant: no fallback for an empty list; the mean is then not a number,
\* written -1.
composite_score_no_fallback(components) ==
    IF Len(components) = 0 THEN 0 - 1
    ELSE RoundHalfEven(10 * SumSeq(components), ScoreDen * Len(components))

\* Variant: the sum is divided by the number of all scored categories.
composite_score_all_categories(components) ==
    IF Len(components) = 0 THEN 0
    ELSE RoundHalfEven(10 * SumSeq(components), ScoreDen * Len(max_distances_items))

\* Variant: the mean is rounded to a whole number.
composite_score_whole(components) ==
    IF Len(components) = 0 THEN 0
    ELSE 10 * RoundHalfEven(SumSeq(components), ScoreDen * Len(components))

\* round(np.mean(score_components) if score_components else 0, 1), in 1/10
composite_score(components) ==
    IF Len(components) = 0 THEN 0
    ELSE RoundHalfEven(10 * SumSeq(components), ScoreDen * Len(components))

calculate_scores(df) ==
    SetColumn(df, "composite_score",
              [i \in 1..Len(df.rows) |-> composite_score(row_components(df, df.rows[i]))])

----------------------------------------------------------------------------
(* export_for_frontend and the files main writes *)

\* Variant: the file is opened for appending.
write_file_append(old, content) == old \o content

\* open(path, 'w') and to_csv(path): the file holds what is written, no more
write_file(old, content) == content

\* final_df.to_csv(index=False): a header line and one line per row
to_csv(df) == <<df.columns>> \o [i \in 1..Len(df.rows) |-> [k \in 1..Len(df.columns) |-> df.rows[i][df.columns[k]]]]

\* df.to_dict('records')
to_records(df) == df.rows

\* Variant: the coordinates are written as [latitude, longitude].
poi_feature_lat_lon(poi, poi_type) ==
    [type |-> "Feature",
     properties |-> [id |-> poi.id, name_he |-> poi.name_he, type |-> poi_type],
     geometry |-> [type |-> "Point", coordinates |-> <<poi.latitude, poi.longitude>>]]

poi_feature(poi, poi_type) ==
    [type |-> "Feature",
     properties |-> [id |-> poi.id, name_he |-> poi.name_he, type |-> poi_type],
     geometry |-> [type |-> "Point", coordinates |-> <<poi.longitude, poi.latitude>>]]

RECURSIVE all_pois(_, _)
all_pois(p, items) ==
    IF items = <<>> THEN <<>>
    ELSE [i \in 1..Len(p[Head(items)]) |-> poi_feature(p[Head(items)][i], Head(items))]
         \o all_pois(p, Tail(items))

neighborhood_feature(row) ==
    [type |-> "Feature",
     properties |-> [id |-> row["id"], name_he |-> row["name_he"], name_en |-> row["name_en"],
                     city |-> row["city"], composite_score |-> row["composite_score"]],
     geometry |-> [type |-> "Point", coordinates |-> <<row["longitude"], row["latitude"]>>]]

NoPublicFiles == [neighborhoods_json |-> <<>>, pois_geojson |-> <<>>,
                  neighborhoods_geojson |-> <<>>]

export_for_frontend(dir, df, p) ==
    [neighborhoods_json    |-> write_file(dir.neighborhoods_json, to_records(df)),
     pois_geojson          |-> write_file(dir.pois_geojson, all_pois(p, PoiItems(p))),
     neighborhoods_geojson |-> write_file(dir.neighborhoods_geojson,
                                  [i \in 1..Len(df.rows) |-> neighborhood_feature(df.rows[i])])]

\* the columns the closing print of main selects
sample_columns == {"name_he", "composite_score", "schools_distance_km", "clinics_distance_km"}

----------------------------------------------------------------------------
(* main *)

Init ==
    /\ \E s \in FileStates("schools"), k \in FileStates("kindergartens"),
          c \in FileStates("clinics"), b \in FileStates("bus_stops") :
            raw_dir = [schools |-> s, kindergartens |-> k, clinics |-> c, bus_stops |-> b]
    /\ tie_rule \in {"first", "last"}
    /\ pc = "load_pois"
    /\ run = 1
    /\ pois = <<>>
    /\ neighborhoods_df = EmptyDf
    /\ neighborhoods_with_distances = EmptyDf
    /\ final_df = EmptyDf
    /\ score_components = <<>>
    /\ processed_dir = <<>>
    /\ public_dir = NoPublicFiles
    /\ prev_outputs = [processed |-> <<>>, public |-> NoPublicFiles, final_df |-> EmptyDf]
    /\ not_etl_idle

\* Variant: main goes on when load_pois returns no table.
LoadPois_no_return ==
    /\ pc = "load_pois"
    /\ pois' = load_pois(raw_dir)
    /\ pc' = "create_neighborhoods"
    /\ UNCHANGED <<raw_dir, tie_rule, run, neighborhoods_df,
                   neighborhoods_with_distances, final_df, score_components,
                   processed_dir, public_dir, prev_outputs>>
    /\ UNCHANGED not_etl

\* pois = load_pois(); if not pois: return
LoadPois ==
    /\ pc = "load_pois"
    /\ pois' = load_pois(raw_dir)
    /\ pc' = IF DOMAIN pois' = {} THEN "returned" ELSE "create_neighborhoods"
    /\ UNCHANGED <<raw_dir, tie_rule, run, neighborhoods_df,
                   neighborhoods_with_distances, final_df, score_components,
                   processed_dir, public_dir, prev_outputs>>
    /\ UNCHANGED not_etl

\* neighborhoods_df = create_neighborhoods()
CreateNeighborhoods ==
    /\ pc = "create_neighborhoods"
    /\ neighborhoods_df' = create_neighborhoods
    /\ pc' = "find_nearest_pois"
    /\ UNCHANGED <<raw_dir, tie_rule, run, pois, neighborhoods_with_distances,
                   final_df, score_components, processed_dir, public_dir,
                   prev_outputs>>
    /\ UNCHANGED not_etl

\* Variant: the resolver writes its columns into the table it was given
\* (results = neighborhoods_df, without copy()).
FindNearestPois_in_place ==
    /\ pc = "find_nearest_pois"
    /\ IF find_nearest_pois_raises(pois) = ""
       THEN /\ neighborhoods_with_distances' =
                   find_nearest_pois(neighborhoods_df, pois, tie_rule)
            /\ neighborhoods_df' = neighborhoods_with_distances'
            /\ pc' = "calculate_scores"
       ELSE /\ UNCHANGED <<neighborhoods_with_distances, neighborhoods_df>>
            /\ pc' = find_nearest_pois_raises(pois)
    /\ UNCHANGED <<raw_dir, tie_rule, run, pois, final_df,
                   score_components, processed_dir, public_dir, prev_outputs>>
    /\ UNCHANGED not_etl

\* neighborhoods_with_distances = find_nearest_pois(neighborhoods_df, pois)
\* An exception in find_nearest_pois is caught nowhere and ends the process.
FindNearestPois ==
    /\ pc = "find_nearest_pois"
    /\ IF find_nearest_pois_raises(pois) = ""
       THEN /\ neighborhoods_with_distances' =
                   find_nearest_pois(neighborhoods_df, pois, tie_rule)
            /\ pc' = "calculate_scores"
       ELSE /\ neighborhoods_with_distances' = neighborhoods_with_distances
            /\ pc' = find_nearest_pois_raises(pois)
    /\ UNCHANGED <<raw_dir, tie_rule, run, pois, neighborhoods_df, final_df,
                   score_components, processed_dir, public_dir, prev_outputs>>
    /\ UNCHANGED not_etl

\* Variant: after scoring, main resolves the nearest POIs again.
CalculateScores_resolves_again ==
    /\ pc = "calculate_scores"
    /\ final_df' = calculate_scores(neighborhoods_with_distances)
    /\ neighborhoods_with_distances' = final_df'
    /\ score_components' = [i \in 1..Len(neighborhoods_with_distances.rows) |->
            row_components(neighborhoods_with_distances, neighborhoods_with_distances.rows[i])]
    /\ pc' = "find_nearest_pois"
    /\ UNCHANGED <<raw_dir, tie_rule, run, pois, neighborhoods_df, processed_dir,
                   public_dir, prev_outputs>>
    /\ UNCHANGED not_etl

\* final_df = calculate_scores(neighborhoods_with_distances); the DataFrame is
\* changed in place, so both names hold the scored table afterwards.
CalculateScores ==
    /\ pc = "calculate_scores"
    /\ final_df' = calculate_scores(neighborhoods_with_distances)
    /\ neighborhoods_with_distances' = final_df'
    /\ score_components' = [i \in 1..Len(neighborhoods_with_distances.rows) |->
            row_components(neighborhoods_with_distances, neighborhoods_with_distances.rows[i])]
    /\ pc' = "to_csv"
    /\ UNCHANGED <<raw_dir, tie_rule, run, pois, neighborhoods_df, processed_dir,
                   public_dir, prev_outputs>>
    /\ UNCHANGED not_etl

\* final_df.to_csv(PROCESSED_DIR / 'neighborhoods_with_distances.csv', index=False)
SaveProcessed ==
    /\ pc = "to_csv"
    /\ processed_dir' = write_file(processed_dir, to_csv(final_df))
    /\ pc' = "export_for_frontend"
    /\ UNCHANGED <<raw_dir, tie_rule, run, pois, neighborhoods_df,
                   neighborhoods_with_distances, final_df, score_components,
                   public_dir, prev_outputs>>
    /\ UNCHANGED not_etl

\* export_for_frontend(final_df, pois)
ExportForFrontend ==
    /\ pc = "export_for_frontend"
    /\ public_dir' = export_for_frontend(public_dir, final_df, pois)
    /\ pc' = "print_sample"
    /\ UNCHANGED <<raw_dir, tie_rule, run, pois, neighborhoods_df,
                   neighborhoods_with_distances, final_df, score_components,
                   processed_dir, prev_outputs>>
    /\ UNCHANGED not_etl

\* print(final_df[['name_he', 'composite_score', 'schools_distance_km',
\* 'clinics_distance_km']].head()): KeyError when a column is missing
PrintSample ==
    /\ pc = "print_sample"
    /\ pc' = IF \A col \in sample_columns : HasColumn(final_df, col)
             THEN "done" ELSE "KeyError"
    /\ UNCHANGED <<raw_dir, tie_rule, run, pois, neighborhoods_df,
                   neighborhoods_with_distances, final_df, score_components,
                   processed_dir, public_dir, prev_outputs>>
    /\ UNCHANGED not_etl

\* The uncaught exceptions that end the process
Errors == {"KeyError", "TypeError", "ValueError"}

Ended == pc \in {"done", "returned"} \cup Errors

\* The script is started again on the same RAW_DIR: a new process, whose
\* memory is fresh; the files of the earlier run are still on disk.
Rerun ==
    /\ Ended
    /\ run < MaxRuns
    /\ run' = run + 1
    /\ prev_outputs' = [processed |-> processed_dir, public |-> public_dir,
                        final_df |-> final_df]
    /\ pc' = "load_pois"
    /\ pois' = <<>>
    /\ neighborhoods_df' = EmptyDf
    /\ neighborhoods_with_distances' = EmptyDf
    /\ final_df' = EmptyDf
    /\ score_components' = <<>>
    /\ UNCHANGED <<raw_dir, tie_rule, processed_dir, public_dir>>
    /\ UNCHANGED not_etl

Next ==
    \/ LoadPois
    \/ CreateNeighborhoods
    \/ FindNearestPois
    \/ CalculateScores
    \/ SaveProcessed
    \/ ExportForFrontend
    \/ PrintSample
    \/ Rerun

Spec == Init /\ [][Next]_vars

\* One execution of the script: main runs once on RAW_DIR and the process ends.
NextSingleRun ==
    \/ LoadPois
    \/ CreateNeighborhoods
    \/ FindNearestPois
    \/ CalculateScores
    \/ SaveProcessed
    \/ ExportForFrontend
    \/ PrintSample

SpecSingleRun == Init /\ [][NextSingleRun]_vars

----------------------------------------------------------------------------
(* Properties *)

\* find_nearest_pois has just returned: neighborhoods_with_distances is its result
Resolved == pc = "calculate_scores"

\* calculate_scores has just returned: final_df is its result and
\* score_components holds the raw scores it computed for each row
Scored == pc = "to_csv"

\* the categories with at least one loaded POI
NonEmpty == {c \in DOMAIN pois : Len(pois[c]) >= 1}

\* the calibration constants as the specification states them, in 1/100 km
StatedMaxDist(c) ==
    CASE c = "schools" -> 200 [] c = "kindergartens" -> 100
      [] c = "clinics" -> 300 [] c = "bus_stops" -> 50

\* 600 * max(0, 100 * (1 - d / max_dist[c])), for d in 1/100 km
StatedRaw(c, d) ==
    IF d >= StatedMaxDist(c) THEN 0
    ELSE (60000 * (StatedMaxDist(c) - d)) \div StatedMaxDist(c)

\* 10 * round(mean of the stated raw scores of row over the categories S, 1)
StatedComposite(S, row) ==
    LET term(c) == IF c \in S THEN StatedRaw(c, row[distance_col(c)]) ELSE 0
        total   == term("schools") + term("kindergartens") + term("clinics")
                   + term("bus_stops")
    IN  IF S = {} THEN 0 ELSE RoundHalfEven(10 * total, 600 * Cardinality(S))

\* C1: every composite_score that calculate_scores assigns lies in [0, 100]
\* (0..1000 in tenths), whatever subset of the scored categories has distance
\* columns and whatever the distances are.
C1_CompositeBounded ==
    Scored => \A i \in 1..Len(final_df.rows) :
                 /\ final_df.rows[i]["composite_score"] >= 0
                 /\ final_df.rows[i]["composite_score"] <= 1000

C1_Witness ==
    /\ Scored
    /\ \E c \in Categories : HasColumn(final_df, distance_col(c))
    /\ \E i \in 1..Len(final_df.rows) :
          final_df.rows[i]["composite_score"] \in 1..999
    /\ \E i \in 1..Len(final_df.rows) : final_df.rows[i]["composite_score"] = 0
    /\ \E i \in 1..Len(final_df.rows) : final_df.rows[i]["composite_score"] = 1000

\* C2: for every category with at least one POI, find_nearest_pois gives each
\* neighborhood exactly one distance value and one nearest-name value, and the
\* result has the input's neighborhoods, in the input's order.
C2_OneResultPerNeighborhood ==
    Resolved =>
        /\ Len(neighborhoods_with_distances.rows) = Len(neighborhoods_df.rows)
        /\ \A i \in 1..Len(neighborhoods_df.rows) :
              \A col \in Range(neighborhoods_df.columns) :
                 neighborhoods_with_distances.rows[i][col] = neighborhoods_df.rows[i][col]
        /\ \A c \in NonEmpty : \A col \in {distance_col(c), nearest_col(c)} :
              /\ Cardinality({k \in 1..Len(neighborhoods_with_distances.columns) :
                                 neighborhoods_with_distances.columns[k] = col}) = 1
              /\ \A i \in 1..Len(neighborhoods_with_distances.rows) :
                    col \in DOMAIN neighborhoods_with_distances.rows[i]

C2_Witness ==
    /\ pc = "calculate_scores"
    /\ Cardinality(NonEmpty) = 4
    /\ \E c \in NonEmpty : Len(pois[c]) = 1
    /\ Len(neighborhoods_with_distances.rows) = 10

\* C3: a category with zero POIs (not loaded, or loaded with no rows) leaves
\* no distance or nearest-name field in any neighborhood record, and the
\* composite score is the rounded mean over the other categories only.
C3_EmptyCategoryAbsent ==
    /\ Resolved =>
          \A c \in Categories \ NonEmpty : \A col \in {distance_col(c), nearest_col(c)} :
             /\ ~HasColumn(neighborhoods_with_distances, col)
             /\ \A i \in 1..Len(neighborhoods_with_distances.rows) :
                   col \notin DOMAIN neighborhoods_with_distances.rows[i]
    /\ Scored =>
          \A i \in 1..Len(final_df.rows) :
             final_df.rows[i]["composite_score"] = StatedComposite(NonEmpty, final_df.rows[i])

C3_Witness ==
    /\ Scored
    /\ \E c \in DOMAIN pois : Len(pois[c]) = 0
    /\ \E c \in Categories : c \notin DOMAIN pois
    /\ Cardinality(NonEmpty) = 2
    /\ \E i \in 1..Len(final_df.rows) : final_df.rows[i]["composite_score"] \in 1..999

\* C4: given records without any scored distance column, calculate_scores
\* runs without error and assigns composite_score = 0 to every neighborhood.
C4_NoColumnsScoreZero ==
    /\ (pc = "calculate_scores"
        /\ \A c \in Categories : ~HasColumn(neighborhoods_with_distances, distance_col(c)))
       => ENABLED CalculateScores
    /\ (Scored /\ \A c \in Categories : ~HasColumn(final_df, distance_col(c)))
       => /\ HasColumn(final_df, "composite_score")
          /\ \A i \in 1..Len(final_df.rows) : final_df.rows[i]["composite_score"] = 0

C4_Witness ==
    /\ Scored
    /\ \A c \in Categories : ~HasColumn(final_df, distance_col(c))
    /\ Len(final_df.rows) = 10
    /\ \A i \in 1..Len(final_df.rows) : final_df.rows[i]["composite_score"] = 0

\* C5: the raw score of category c at distance d is
\* max(0, 100 * (1 - d / max_dist[c])) with max_dist 2.0, 1.0, 3.0 and 0.5 km
\* for schools, kindergartens, clinics and bus stops: 100 at distance 0, 0 at
\* every distance >= max_dist[c], never negative.
C5_RawScoreLinearDecay ==
    Scored =>
        LET present == SelectSeq(poi_files, LAMBDA c : HasColumn(final_df, distance_col(c)))
        IN  \A i \in 1..Len(final_df.rows) :
               /\ Len(score_components[i]) = Len(present)
               /\ \A k \in 1..Len(present) :
                     LET d == final_df.rows[i][distance_col(present[k])]
                         m == StatedMaxDist(present[k])
                         s == score_components[i][k]
                     IN  /\ s >= 0
                         /\ d = 0 => s = 100 * ScoreDen
                         /\ d >= m => s = 0
                         /\ s * m = Max(0, 100 * ScoreDen * (m - d))

C5_Witness ==
    /\ Scored
    /\ \E i \in 1..Len(final_df.rows) :
          /\ HasColumn(final_df, "schools_distance_km")
          /\ final_df.rows[i]["schools_distance_km"] = 0
          /\ score_components[i][1] = 100 * ScoreDen
    /\ \E i \in 1..Len(final_df.rows) : \E c \in Categories :
          /\ HasColumn(final_df, distance_col(c))
          /\ final_df.rows[i][distance_col(c)] = StatedMaxDist(c)
    /\ \E i \in 1..Len(final_df.rows) : \E c \in Categories :
          /\ HasColumn(final_df, distance_col(c))
          /\ final_df.rows[i][distance_col(c)] \in 1..(StatedMaxDist(c) - 1)
    /\ \E i \in 1..Len(final_df.rows) : \E c \in Categories :
          /\ HasColumn(final_df, distance_col(c))
          /\ final_df.rows[i][distance_col(c)] > StatedMaxDist(c)

\* the scored categories that have a distance column in df, in scoring order
Present(df) == SelectSeq(poi_files, LAMBDA c : HasColumn(df, distance_col(c)))

\* C6: a larger distance never gives a larger raw score, and a neighborhood
\* whose distances are all at least those of another (in particular: one
\* category farther, the others equal) never has the larger composite score.
C6_Monotone ==
    Scored =>
        LET P == Present(final_df)
            n == Len(final_df.rows)
            D == [i \in 1..n |-> [k \in 1..Len(P) |-> final_df.rows[i][distance_col(P[k])]]]
            S == [i \in 1..n |-> final_df.rows[i]["composite_score"]]
        IN  \A i, j \in 1..n :
               /\ \A k \in 1..Len(P) :
                     D[i][k] <= D[j][k] => score_components[j][k] <= score_components[i][k]
               /\ (\A k \in 1..Len(P) : D[i][k] <= D[j][k]) => S[j] <= S[i]

C6_Witness ==
    /\ Scored
    /\ Len(Present(final_df)) >= 2
    /\ LET P == Present(final_df)
           n == Len(final_df.rows)
           D == [i \in 1..n |-> [k \in 1..Len(P) |-> final_df.rows[i][distance_col(P[k])]]]
           S == [i \in 1..n |-> final_df.rows[i]["composite_score"]]
       IN  /\ \E i, j \in 1..n :
                 /\ \A k \in 1..Len(P) : D[i][k] <= D[j][k]
                 /\ 0 < S[j]
                 /\ S[j] < S[i]
           /\ \E i, j \in 1..n : \E k \in 1..Len(P) :
                 /\ D[i][k] > StatedMaxDist(P[k])
                 /\ D[i][k] < D[j][k]

\* the POIs of category c that lie exactly on the centroid of row
Coincident(c, row) ==
    {k \in 1..Len(pois[c]) : /\ pois[c][k].latitude = row["latitude"]
                             /\ pois[c][k].longitude = row["longitude"]}

\* C7: a neighborhood whose centroid has exactly the coordinates of a POI of
\* a category gets distance 0 for it, and that category's raw score is 100.
C7_CoincidentScoresFull ==
    /\ Resolved =>
          \A c \in NonEmpty : \A i \in 1..Len(neighborhoods_with_distances.rows) :
             Coincident(c, neighborhoods_with_distances.rows[i]) # {}
             => neighborhoods_with_distances.rows[i][distance_col(c)] = 0
    /\ Scored =>
          \A i \in 1..Len(final_df.rows) : \A k \in 1..Len(Present(final_df)) :
             Coincident(Present(final_df)[k], final_df.rows[i]) # {}
             => score_components[i][k] = 100 * ScoreDen

C7_Witness ==
    /\ Scored
    /\ \E c \in NonEmpty : \E i \in 1..Len(final_df.rows) :
          /\ Len(pois[c]) >= 2
          /\ Coincident(c, final_df.rows[i]) # {}
          /\ 1 \notin Coincident(c, final_df.rows[i])
          /\ final_df.rows[i][distance_col(c)] = 0

\* C8: the composite score is the equal-weighted mean of the raw scores of the
\* categories that have a distance column, divided by their number (not by
\* the number of all scored categories), rounded to 1 decimal place.
C8_MeanOverPresent ==
    (Scored /\ Present(final_df) # <<>>) =>
        \A i \in 1..Len(final_df.rows) :
           final_df.rows[i]["composite_score"]
              = StatedComposite(Range(Present(final_df)), final_df.rows[i])

C8_Witness ==
    /\ Scored
    /\ Len(Present(final_df)) \in 2..3
    /\ \E i \in 1..Len(final_df.rows) :
          /\ final_df.rows[i]["composite_score"] \in 1..999
          /\ \E k \in 1..Len(Present(final_df)) : score_components[i][k] = 0
          /\ \E k \in 1..Len(Present(final_df)) : score_components[i][k] > 0

\* the angle from the centroid of row to POI k of category c
Angle(c, k, row) ==
    haversine(row["latitude"], row["longitude"], pois[c][k].latitude, pois[c][k].longitude)

\* C9: the recorded distance is the minimum over the category's POIs of the
\* distance from the centroid, and the recorded name is the name of a POI at
\* that minimum.
C9_NearestIsMinimum ==
    Resolved =>
        \A c \in NonEmpty : \A i \in 1..Len(neighborhoods_with_distances.rows) :
           LET row == neighborhoods_with_distances.rows[i]
               A   == [k \in 1..Len(pois[c]) |-> Angle(c, k, row)]
           IN  /\ \A k \in 1..Len(pois[c]) : row[distance_col(c)] <= distance_km(A[k])
               /\ \E k \in 1..Len(pois[c]) :
                     /\ \A j \in 1..Len(pois[c]) : A[k] <= A[j]
                     /\ row[distance_col(c)] = distance_km(A[k])
                     /\ row[nearest_col(c)] = pois[c][k].name_he

C9_Witness ==
    /\ Resolved
    /\ \E c \in NonEmpty :
          /\ Len(pois[c]) >= 3
          /\ \A k \in 1..Len(pois[c]) :
                \E i \in 1..Len(neighborhoods_with_distances.rows) :
                   neighborhoods_with_distances.rows[i][nearest_col(c)] = pois[c][k].name_he
    /\ \E c \in NonEmpty : \E i \in 1..Len(neighborhoods_with_distances.rows) :
          \E j, k \in 1..Len(pois[c]) :
             /\ j # k
             /\ Angle(c, j, neighborhoods_with_distances.rows[i])
                   = Angle(c, k, neighborhoods_with_distances.rows[i])
             /\ neighborhoods_with_distances.rows[i][nearest_col(c)] = pois[c][k].name_he

\* C10: a second run of the pipeline on the same POI tables and neighborhoods
\* ends as the first did and leaves the same distances, nearest-POI names and
\* composite scores, in memory and in every output file.
C10_Idempotent ==
    (run >= 2 /\ Ended) =>
        /\ final_df = prev_outputs.final_df
        /\ processed_dir = prev_outputs.processed
        /\ public_dir = prev_outputs.public

C10_Witness ==
    /\ run = 2
    /\ pc = "done"
    /\ Cardinality(NonEmpty) >= 3
    /\ Len(processed_dir) = 11
    /\ processed_dir = prev_outputs.processed
    /\ \E i \in 1..Len(final_df.rows) : final_df.rows[i]["composite_score"] \in 1..999

\* every latitude cell of every file of RAW_DIR holds a number
AllCellsNumeric ==
    \A c \in Categories : \A i \in 1..Len(raw_dir[c].rows) :
        raw_dir[c].rows[i].latitude_is = "float"

\* every file of RAW_DIR is absent or a CSV with the coordinate columns,
\* empty or with well-formed rows
PresentAbsentOrEmpty ==
    /\ AllCellsNumeric
    /\ \A c \in Categories : raw_dir[c].kind \in {"absent", "csv"}

\* C11: for every combination of present, absent and empty POI categories,
\* the run of main never ends with an uncaught error.
C11_NoUncaughtError == PresentAbsentOrEmpty => pc \notin Errors

\* the file of category c has a latitude cell of the given kind
HasCell(c, cell) ==
    \E i \in 1..Len(raw_dir[c].rows) : raw_dir[c].rows[i].latitude_is = cell

\* the table of category c is absent, lacks the coordinate columns, or has a
\* coordinate column that is not numeric
AbsentOrMalformed(c) ==
    raw_dir[c].kind \in {"absent", "no_latlon"} \/ HasCell(c, "str")

\* the table of category c has numeric coordinate columns
WellFormed(c) == raw_dir[c].kind = "csv" /\ ~HasCell(c, "str")

\* C12: a category whose table is absent or has malformed or missing
\* coordinate columns is skipped and the pipeline continues: it is not
\* loaded, every well-formed category is loaded, the resolver raises nothing
\* and gives every well-formed category that has POIs its columns.
C12_MalformedCategorySkipped ==
    (pc /= "load_pois" /\ \A c \in Categories : ~HasCell(c, "nan")) =>
        /\ \A c \in Categories : AbsentOrMalformed(c) => c \notin DOMAIN pois
        /\ \A c \in Categories : WellFormed(c) => c \in DOMAIN pois
        /\ pc \notin {"TypeError", "ValueError"}
        /\ Resolved => \A c \in Categories :
               (WellFormed(c) /\ Len(raw_dir[c].rows) >= 1) =>
                   HasColumn(neighborhoods_with_distances, distance_col(c))

\* the loaded rows of category c whose latitude did not parse
UnparsedRows(c) == {i \in 1..Len(pois[c]) : pois[c][i].latitude_is /= "float"}

\* C13: a POI row whose coordinate cannot be parsed is skipped and the rest
\* of its category is processed: the resolver raises nothing, and when it
\* has returned, every category with such a row has its columns and no
\* neighborhood has such a row as its nearest POI.
C13_MalformedRowSkipped ==
    /\ pc \notin {"TypeError", "ValueError"}
    /\ Resolved => \A c \in DOMAIN pois : UnparsedRows(c) /= {} =>
           /\ HasColumn(neighborhoods_with_distances, nearest_col(c))
           /\ \A i \in 1..Len(neighborhoods_with_distances.rows) :
                  \A j \in UnparsedRows(c) :
                      neighborhoods_with_distances.rows[i][nearest_col(c)]
                          /= pois[c][j].name_he

\* no file of RAW_DIR is loaded / some file is, and no loaded file has a row
NoneLoaded == \A c \in Categories : raw_dir[c].kind /= "csv"
LoadedButEmpty ==
    /\ ~NoneLoaded
    /\ \A c \in Categories : raw_dir[c].rows = <<>>

\* the records of neighborhoods.json: one per neighborhood, each with
\* composite_score 0 and without any distance field
ZeroScoreRecords(records) ==
    /\ Len(records) = Len(sample_data)
    /\ \A i \in 1..Len(records) :
          /\ records[i]["composite_score"] = 0
          /\ \A c \in Categories : distance_col(c) \notin DOMAIN records[i]

StageRank(stage) ==
    CASE stage = "load_pois"            -> 1
      [] stage = "create_neighborhoods" -> 2
      [] stage = "find_nearest_pois"    -> 3
      [] stage = "calculate_scores"     -> 4
      [] stage = "to_csv"               -> 5
      [] stage = "export_for_frontend"  -> 6
      [] stage = "print_sample"         -> 7
      [] OTHER                          -> 8

\* C15: within a run every step moves main to a later stage, so the stages
\* happen in the stated order, each at most once and none after a later one
\* has started; and each stage's product changes only in that stage: the POI
\* tables in load, the neighborhood table in create, the enriched table in
\* resolve and score, the scored table in score, the files in write.
C15_SinglePass ==
    [][run' = run =>
          /\ StageRank(pc') > StageRank(pc)
          /\ pois' /= pois => pc = "load_pois"
          /\ neighborhoods_df' /= neighborhoods_df => pc = "create_neighborhoods"
          /\ neighborhoods_with_distances' /= neighborhoods_with_distances =>
                 pc \in {"find_nearest_pois", "calculate_scores"}
          /\ final_df' /= final_df => pc = "calculate_scores"
          /\ processed_dir' /= processed_dir => pc = "to_csv"
          /\ public_dir' /= public_dir => pc = "export_for_frontend"]_vars

C15_Witness ==
    /\ pc = "done"
    /\ run = 1
    /\ DOMAIN pois = Categories
    /\ neighborhoods_df = create_neighborhoods
    /\ HasColumn(neighborhoods_with_distances, "bus_stops_distance_km")
    /\ HasColumn(final_df, "composite_score")
    /\ Len(processed_dir) = Len(sample_data) + 1
    /\ Len(public_dir.neighborhoods_geojson) = Len(sample_data)

Reverse(seq) == [i \in 1..Len(seq) |-> seq[Len(seq) + 1 - i]]

\* the records of table df restricted to the two fields of category c
Slice(df, c) ==
    [i \in 1..Len(df.rows) |->
        [col \in {distance_col(c), nearest_col(c)} \cap Range(df.columns) |->
            df.rows[i][col]]]

\* C16: the values the resolver computes for a category depend only on that
\* category's POIs and the neighborhoods: they equal those of a resolver run
\* on that category alone, and running the passes in the opposite order
\* gives the same enriched records.
C16_PassesIndependent ==
    Resolved =>
        LET alone(c) == find_nearest_pois(neighborhoods_df, (c :> pois[c]), tie_rule)
            backwards == nearest_loop(neighborhoods_df, neighborhoods_df, pois,
                                      Reverse(PoiItems(pois)), tie_rule)
        IN  /\ \A c \in DOMAIN pois :
                  Slice(neighborhoods_with_distances, c) = Slice(alone(c), c)
            /\ backwards.rows = neighborhoods_with_distances.rows

C16_Witness ==
    /\ Resolved
    /\ Cardinality(NonEmpty) >= 3
    /\ \E c \in DOMAIN pois : Len(pois[c]) = 0
    /\ \E c, d \in NonEmpty : \E i \in 1..Len(neighborhoods_with_distances.rows) :
          neighborhoods_with_distances.rows[i][distance_col(c)]
              < neighborhoods_with_distances.rows[i][distance_col(d)]

\* tables before and after differ at most in the two fields of category c
OnlySliceChanged(before, after, c) ==
    LET own == {distance_col(c), nearest_col(c)}
    IN  /\ Len(after.rows) = Len(before.rows)
        /\ Range(after.columns) \subseteq Range(before.columns) \cup own
        /\ \A i \in 1..Len(before.rows) :
              \A col \in Range(before.columns) \ own :
                  /\ col \in Range(after.columns)
                  /\ after.rows[i][col] = before.rows[i][col]

\* C17: when find_nearest_pois has returned, the neighborhood table and the
\* POI tables it was given are as they were before the call; the pass of a
\* category changes only that category's two fields of the table it is
\* given; and the result is the neighborhood table with, for each category
\* that has POIs, the two fields its pass wrote.
C17_ResolverReadOnly ==
    Resolved =>
        LET N == neighborhoods_df
            R == neighborhoods_with_distances
            own(c) == {distance_col(c), nearest_col(c)}
        IN  /\ N = create_neighborhoods
            /\ pois = load_pois(raw_dir)
            /\ Len(R.rows) = Len(N.rows)
            /\ Range(R.columns) = Range(N.columns) \cup UNION {own(c) : c \in NonEmpty}
            /\ \A i \in 1..Len(N.rows) : \A col \in Range(N.columns) :
                  R.rows[i][col] = N.rows[i][col]
            /\ \A c \in DOMAIN pois :
                  LET after == nearest_pass(N, N, c, pois[c], tie_rule)
                  IN  /\ OnlySliceChanged(N, after, c)
                      /\ \A i \in 1..Len(N.rows) :
                            \A col \in own(c) \cap Range(after.columns) :
                                R.rows[i][col] = after.rows[i][col]

C17_Witness ==
    /\ Resolved
    /\ Cardinality(NonEmpty) >= 2
    /\ neighborhoods_with_distances /= neighborhoods_df
    /\ ~HasColumn(neighborhoods_df, "schools_distance_km")
    /\ HasColumn(neighborhoods_with_distances, "schools_distance_km")

\* export_for_frontend has just returned: public_dir holds what it wrote
Exported == pc = "print_sample"

\* the positions of sequence features whose element satisfies Is(_)
Positions(features, Is(_)) == {j \in 1..Len(features) : Is(features[j])}

\* C18: pois.geojson has exactly one point feature per loaded POI of every
\* category, with the POI's id, name and category as properties and its
\* longitude and latitude as coordinates, and no other feature;
\* neighborhoods.geojson has exactly one point feature per neighborhood, with
\* that neighborhood's composite_score.
C18_FeaturePerPoiAndNeighborhood ==
    Exported =>
        LET fp == public_dir.pois_geojson
            fn == public_dir.neighborhoods_geojson
            IsPoi(c, k, f) ==
                /\ f.type = "Feature"
                /\ f.properties = [id |-> pois[c][k].id, name_he |-> pois[c][k].name_he,
                                   type |-> c]
                /\ f.geometry = [type |-> "Point",
                                 coordinates |-> <<pois[c][k].longitude, pois[c][k].latitude>>]
            IsHood(i, f) ==
                /\ f.type = "Feature"
                /\ f.properties.id = final_df.rows[i]["id"]
                /\ f.properties.name_he = final_df.rows[i]["name_he"]
                /\ f.properties.composite_score = final_df.rows[i]["composite_score"]
                /\ f.geometry = [type |-> "Point",
                                 coordinates |-> <<final_df.rows[i]["longitude"],
                                                   final_df.rows[i]["latitude"]>>]
        IN  /\ \A c \in DOMAIN pois : \A k \in 1..Len(pois[c]) :
                  Cardinality(Positions(fp, LAMBDA f : IsPoi(c, k, f))) = 1
            /\ Len(fp) = SumSeq([j \in 1..Len(PoiItems(pois)) |->
                                    Len(pois[PoiItems(pois)[j]])])
            /\ \A i \in 1..Len(final_df.rows) :
                  Cardinality(Positions(fn, LAMBDA f : IsHood(i, f))) = 1
            /\ Len(fn) = Len(final_df.rows)

C18_Witness ==
    /\ Exported
    /\ Cardinality(NonEmpty) >= 3
    /\ \E c \in DOMAIN pois : Len(pois[c]) = 0
    /\ Len(public_dir.pois_geojson) >= 5
    /\ \E j \in 1..Len(public_dir.pois_geojson) :
          public_dir.pois_geojson[j].properties.type = "bus_stops"
    /\ \E i, j \in 1..Len(public_dir.neighborhoods_geojson) :
          public_dir.neighborhoods_geojson[i].properties.composite_score
              /= public_dir.neighborhoods_geojson[j].properties.composite_score

\* C19: the distance recorded for a neighborhood and a category is the
\* haversine angle between the centroid and the nearest POI of the category
\* (the least angle over its POIs) times 6371 km, rounded to 2 decimals
\* (angles are in 1e-7 rad and distances in 1/100 km, hence the divisor
\* 100000); it is never negative.
C19_DistanceIsAngleTimesRadius ==
    Resolved =>
        \A c \in NonEmpty : \A i \in 1..Len(neighborhoods_with_distances.rows) :
           LET row  == neighborhoods_with_distances.rows[i]
               A    == [k \in 1..Len(pois[c]) |-> Angle(c, k, row)]
               near == CHOOSE k \in 1..Len(pois[c]) : \A j \in 1..Len(pois[c]) : A[k] <= A[j]
               km   == A[near] * 6371
           IN  /\ A[near] >= 0
               /\ row[distance_col(c)] >= 0
               /\ 2 * (100000 * row[distance_col(c)] - km) \in -100000..100000
               /\ row[distance_col(c)] = RoundHalfEven(km, 100000)

C19_Witness ==
    /\ Resolved
    /\ \E c \in NonEmpty : \E i \in 1..Len(neighborhoods_with_distances.rows) :
          /\ Len(pois[c]) >= 2
          /\ neighborhoods_with_distances.rows[i][distance_col(c)] = 0
    /\ \E c \in NonEmpty : \E i \in 1..Len(neighborhoods_with_distances.rows) :
          neighborhoods_with_distances.rows[i][distance_col(c)] = 111
    /\ \E c \in NonEmpty : \E i \in 1..Len(neighborhoods_with_distances.rows) :
          neighborhoods_with_distances.rows[i][distance_col(c)] > 5000

\* C20: a neighborhood whose only available categories are schools, at
\* 0.00 km, and clinics, at 1.11 km, gets the raw scores 100.0 and 63.0
\* (60000 and 37800 as numerators over 600) and composite_score 81.5 (815
\* tenths).
C20_ExampleSchoolsAndClinics ==
    Scored =>
        \A i \in 1..Len(final_df.rows) :
            (/\ Present(final_df) = <<"schools", "clinics">>
             /\ final_df.rows[i]["schools_distance_km"] = 0
             /\ final_df.rows[i]["clinics_distance_km"] = 111)
            => /\ score_components[i] = <<60000, 37800>>
               /\ final_df.rows[i]["composite_score"] = 815

C20_Witness ==
    /\ Scored
    /\ Present(final_df) = <<"schools", "clinics">>
    /\ \E i \in 1..Len(final_df.rows) :
          /\ final_df.rows[i]["schools_distance_km"] = 0
          /\ final_df.rows[i]["clinics_distance_km"] = 111
          /\ final_df.rows[i]["composite_score"] = 815

----------------------------------------------------------------------------
(* etl/get_long_lat_from_address.py: main                                  *)
(*                                                                         *)
(* Streets and cities are numbered: street 100 + s is street s written     *)
(* with other spacing and letter case.  Longitudes and latitudes are       *)
(* integers.  A cell of lon, lat or geocode_error is a record: is tells    *)
(* what the cell holds (None, NaN, a float or a str) and v its value (0    *)
(* or "" when it holds nothing).                                           *)

\* the columns 'ktovet' (street address) and 'yishuv' (city), in Hebrew in the code
required_cols == <<"ktovet", "yishuv">>

\* normalize_space(x).lower()
normalize_lower(x) == IF x > 100 THEN x - 100 ELSE x

\* make_address_key(address, city, country): the parts joined with " | "
make_address_key(address, city, country) ==
    <<normalize_lower(address), normalize_lower(city),
      CASE country = "Israel" -> "israel" [] OTHER -> country>>

cell_None == [is |-> "None", v |-> 0]
cell_NaN == [is |-> "NaN", v |-> 0]
cell_float(x) == [is |-> "float", v |-> x]
error_None == [is |-> "None", v |-> ""]
error_str(e) == [is |-> "str", v |-> e]

\* Series.isna()
isna(cell) == cell.is \in {"None", "NaN"}

\* to_csv writes nothing for a missing value and the text of any other
to_csv_cell(cell) == [empty |-> isna(cell), v |-> cell.v]

\* read_csv(dtype=str): an empty field is NaN, any other field a str
read_csv_cell(field) == [is |-> IF field.empty THEN "NaN" ELSE "str", v |-> field.v]

\* a row of the input sheet
InRow(mosad, ktovet, yishuv) == [mosad |-> mosad, ktovet |-> ktovet, yishuv |-> yishuv]

\* The input sheets: empty; two addresses; the same (address, city) pair on
\* two rows; one address written in two ways; MaxRows different addresses.
InputSheets ==
    { <<>>,
      <<InRow(1, 1, 1), InRow(2, 2, 1)>>,
      <<InRow(1, 1, 1), InRow(2, 1, 1), InRow(3, 2, 1)>>,
      <<InRow(1, 1, 1), InRow(2, 101, 1)>>,
      [i \in 1..MaxRows |-> InRow(i, i, 1)] }

\* the values of --checkpoint-every
CheckpointEveryValues == {1, MaxRows - 1, MaxRows + 3}

NoFile == [state |-> "absent", rows |-> <<>>]

\* the concatenation of a sequence of sequences
RECURSIVE Flatten(_)
Flatten(seqs) ==
    IF seqs = <<>> THEN <<>> ELSE Head(seqs) \o Flatten(Tail(seqs))

\* Series.unique(): the values in the order of their first appearance
RECURSIVE unique(_)
unique(values) ==
    IF values = <<>> THEN <<>>
    ELSE LET front == unique(SubSeq(values, 1, Len(values) - 1))
             last == values[Len(values)]
         IN IF \E i \in DOMAIN front : front[i] = last THEN front
            ELSE Append(front, last)

\* pd.merge(left, right[[*required_cols, lon, lat, geocode_error]],
\* on=required_cols, how="left"): every left row once for each right row
\* with its (ktovet, yishuv), or once with missing values when there is none
merge_left(left, right) ==
    Flatten([i \in DOMAIN left |->
        LET same(r) == r.ktovet = left[i].ktovet /\ r.yishuv = left[i].yishuv
            matches == SelectSeq(right, same)
        IN IF matches = <<>>
           THEN <<[mosad |-> left[i].mosad, ktovet |-> left[i].ktovet,
                   yishuv |-> left[i].yishuv, lon |-> cell_NaN,
                   lat |-> cell_NaN, geocode_error |-> [is |-> "NaN", v |-> ""]]>>
           ELSE [j \in DOMAIN matches |->
                  [mosad |-> left[i].mosad, ktovet |-> left[i].ktovet,
                   yishuv |-> left[i].yishuv, lon |-> matches[j].lon,
                   lat |-> matches[j].lat,
                   geocode_error |-> matches[j].geocode_error]]])

\* df_in.copy() with the columns lon, lat and geocode_error set to None
copy_with_none(left) ==
    [i \in DOMAIN left |->
        [mosad |-> left[i].mosad, ktovet |-> left[i].ktovet,
         yishuv |-> left[i].yishuv, lon |-> cell_None, lat |-> cell_None,
         geocode_error |-> error_None]]

\* pd.read_csv(args.out, dtype=str)
read_csv(file) ==
    [i \in DOMAIN file.rows |->
        [mosad |-> file.rows[i].mosad, ktovet |-> file.rows[i].ktovet,
         yishuv |-> file.rows[i].yishuv,
         lon |-> read_csv_cell(file.rows[i].lon),
         lat |-> read_csv_cell(file.rows[i].lat),
         geocode_error |-> read_csv_cell(file.rows[i].geocode_error)]]

\* the lines df.to_csv writes
to_csv_lines(df) ==
    [i \in DOMAIN df |->
        [mosad |-> df[i].mosad, ktovet |-> df[i].ktovet,
         yishuv |-> df[i].yishuv, lon |-> to_csv_cell(df[i].lon),
         lat |-> to_csv_cell(df[i].lat),
         geocode_error |-> to_csv_cell(df[i].geocode_error),
         address_key |-> df[i].address_key]]

\* df_out["__address_key"] = addr_keys
with_address_key(df, country) ==
    [i \in DOMAIN df |->
        [mosad |-> df[i].mosad, ktovet |-> df[i].ktovet,
         yishuv |-> df[i].yishuv, lon |-> df[i].lon, lat |-> df[i].lat,
         geocode_error |-> df[i].geocode_error,
         address_key |-> make_address_key(df[i].ktovet, df[i].yishuv, country)]]

\* the rows with a missing lon or lat
is_missing(row) == isna(row.lon) \/ isna(row.lat)

\* the keys of all rows, whether or not they have coordinates
pending_of_all_rows(df) ==
    unique([i \in DOMAIN df |-> df[i].address_key])

\* df_missing["__address_key"].dropna().unique().tolist()
pending_of(df) ==
    LET df_missing == SelectSeq(df, is_missing)
    IN unique([i \in DOMAIN df_missing |-> df_missing[i].address_key])

\* key_to_parts[k]: (ktovet, yishuv) of the first row with the key
key_to_parts(df, k) ==
    LET i == CHOOSE i \in DOMAIN df :
                 /\ df[i].address_key = k
                 /\ \A j \in 1..(i - 1) : df[j].address_key # k
    IN <<df[i].ktovet, df[i].yishuv>>

\* How the geocoding service behaves during the runs: it finds every
\* address, finds none, is down during the first run, or finds only the
\* odd-numbered streets.
Services == {"found", "no_result", "down_then_up", "odd_streets"}

\* client.geocode(street, city, country) as main sees it: (lon, lat, err)
client_geocode(svc, nth_run, street, city) ==
    LET s == normalize_lower(street)
        found == <<cell_float(34000 + s), cell_float(31000 + s), error_None>>
        none == <<cell_None, cell_None, error_str("no_result")>>
        down == <<cell_None, cell_None, error_str("http_503")>>
    IN CASE svc = "found" -> found
         [] svc = "no_result" -> none
         [] svc = "down_then_up" -> IF nth_run = 1 THEN down ELSE found
         [] svc = "odd_streets" -> IF s % 2 = 1 THEN found ELSE none

\* df_out.loc[sub, ...] = ...map(lambda kk: fresh[kk][...])
apply_fresh(df, results) ==
    [i \in DOMAIN df |->
        IF df[i].address_key \in DOMAIN results
        THEN [df[i] EXCEPT !.lon = results[df[i].address_key][1],
                           !.lat = results[df[i].address_key][2],
                           !.geocode_error = results[df[i].address_key][3]]
        ELSE df[i]]

\* max(25, args.checkpoint_every)
checkpoint_threshold(a) ==
    IF a.checkpoint_every > 25 THEN a.checkpoint_every ELSE 25

GeoInit ==
    /\ geo_pc = "start"
    /\ geo_run = 1
    /\ args \in [checkpoint_every : CheckpointEveryValues, country : {"Israel"}]
    /\ df_in \in InputSheets
    /\ out_file = NoFile
    /\ tmp_file = NoFile
    /\ df_out = <<>>
    /\ pending_keys = <<>>
    /\ next_key = 1
    /\ fresh = <<>>
    /\ since_last_checkpoint = 0
    /\ resume = "done"
    /\ service \in Services
    /\ sent = <<>>
    /\ cache_at_start = NoFile
    /\ flushes = <<>>
    /\ interrupted = {}
    /\ not_geocoder_idle

\* main, lines 146-213: read the input, merge the cache, list the keys
LoadInputAndCache ==
    /\ geo_pc = "start"
    /\ LET merged == IF out_file.state # "absent"
                     THEN merge_left(df_in, read_csv(out_file))
                     ELSE copy_with_none(df_in)
           keyed == with_address_key(merged, args.country)
       IN /\ df_out' = keyed
          /\ pending_keys' = pending_of(keyed)
          /\ geo_pc' = IF pending_of(keyed) # <<>> THEN "loop" ELSE "to_csv"
    /\ cache_at_start' = out_file
    /\ resume' = "done"
    /\ next_key' = 1
    /\ fresh' = <<>>
    /\ since_last_checkpoint' = 0
    /\ UNCHANGED <<geo_run, args, df_in, out_file, tmp_file, service, sent,
                   flushes, interrupted>>
    /\ UNCHANGED not_geocoder

\* one turn of the loop over pending_keys, lines 217-234, up to the write
GeocodeNext ==
    /\ geo_pc = "loop"
    /\ next_key <= Len(pending_keys)
    /\ next_key' = next_key + 1
    /\ LET k == pending_keys[next_key]
           parts == key_to_parts(df_out, k)
           lon_lat_err == client_geocode(service, geo_run, parts[1], parts[2])
           now_fresh == (k :> lon_lat_err) @@ fresh
       IN IF k \in DOMAIN fresh
          THEN UNCHANGED <<fresh, since_last_checkpoint, sent, df_out,
                           geo_pc, resume>>
          ELSE /\ fresh' = now_fresh
               /\ since_last_checkpoint' = since_last_checkpoint + 1
               /\ sent' = Append(sent, [key |-> k, street |-> parts[1],
                                        city |-> parts[2]])
               /\ IF since_last_checkpoint + 1 >= checkpoint_threshold(args)
                  THEN /\ df_out' = apply_fresh(df_out, now_fresh)
                       /\ geo_pc' = "to_csv"
                       /\ resume' = "loop"
                  ELSE UNCHANGED <<df_out, geo_pc, resume>>
    /\ UNCHANGED <<geo_run, args, df_in, out_file, tmp_file, pending_keys,
                   service, cache_at_start, flushes, interrupted>>
    /\ UNCHANGED not_geocoder

\* the end of the loop and the final flush, lines 236-241
FinalFlush ==
    /\ geo_pc = "loop"
    /\ next_key > Len(pending_keys)
    /\ IF DOMAIN fresh # {}
       THEN /\ df_out' = apply_fresh(df_out, fresh)
            /\ geo_pc' = "to_csv"
            /\ resume' = "done"
       ELSE /\ geo_pc' = "done"
            /\ UNCHANGED <<df_out, resume>>
    /\ UNCHANGED <<geo_run, args, df_in, out_file, tmp_file, pending_keys,
                   next_key, fresh, since_last_checkpoint, service, sent,
                   cache_at_start, flushes, interrupted>>
    /\ UNCHANGED not_geocoder

\* df.to_csv(path): the lines go to the output path itself
ToCsvBegin_in_place ==
    /\ geo_pc = "to_csv"
    /\ out_file' = [state |-> "partial",
                    rows |-> SubSeq(to_csv_lines(df_out), 1, Len(df_out) - 1)]
    /\ geo_pc' = "to_csv_partial"
    /\ UNCHANGED <<geo_run, args, df_in, tmp_file, df_out, pending_keys,
                   next_key, fresh, since_last_checkpoint, resume, service,
                   sent, cache_at_start, flushes, interrupted>>
    /\ UNCHANGED not_geocoder

\* atomic_write_csv: df.to_csv(tmp) has opened tmp and written all lines
\* but the last
ToCsvBegin ==
    /\ geo_pc = "to_csv"
    /\ tmp_file' = [state |-> "partial",
                    rows |-> SubSeq(to_csv_lines(df_out), 1, Len(df_out) - 1)]
    /\ geo_pc' = "to_csv_partial"
    /\ UNCHANGED <<geo_run, args, df_in, out_file, df_out, pending_keys,
                   next_key, fresh, since_last_checkpoint, resume, service,
                   sent, cache_at_start, flushes, interrupted>>
    /\ UNCHANGED not_geocoder

\* atomic_write_csv: df.to_csv(tmp) has written the last line and closed tmp
ToCsvEnd ==
    /\ geo_pc = "to_csv_partial"
    /\ tmp_file' = [state |-> "complete", rows |-> to_csv_lines(df_out)]
    /\ geo_pc' = "replace"
    /\ UNCHANGED <<geo_run, args, df_in, out_file, df_out, pending_keys,
                   next_key, fresh, since_last_checkpoint, resume, service,
                   sent, cache_at_start, flushes, interrupted>>
    /\ UNCHANGED not_geocoder

\* atomic_write_csv: os.replace(tmp, path); then fresh.clear() and
\* since_last_checkpoint = 0 (lines 233-234, 243)
Replace ==
    /\ geo_pc = "replace"
    /\ out_file' = tmp_file
    /\ tmp_file' = NoFile
    /\ flushes' = Append(flushes, Len(sent))
    /\ fresh' = <<>>
    /\ since_last_checkpoint' = IF resume = "loop" THEN 0
                                ELSE since_last_checkpoint
    /\ geo_pc' = resume
    /\ UNCHANGED <<geo_run, args, df_in, df_out, pending_keys, next_key,
                   resume, service, sent, cache_at_start, interrupted>>
    /\ UNCHANGED not_geocoder

\* The process is stopped: what it held in memory is lost, the files stay.
Kill ==
    /\ geo_pc \in {"start", "loop", "to_csv", "to_csv_partial", "replace"}
    /\ interrupted' = interrupted \cup {geo_pc}
    /\ geo_pc' = "killed"
    /\ df_out' = <<>>
    /\ pending_keys' = <<>>
    /\ next_key' = 1
    /\ fresh' = <<>>
    /\ since_last_checkpoint' = 0
    /\ resume' = "done"
    /\ UNCHANGED <<geo_run, args, df_in, out_file, tmp_file, service, sent,
                   cache_at_start, flushes>>
    /\ UNCHANGED not_geocoder

\* the script is started again on the same input and output paths
GeoRerun ==
    /\ geo_pc \in {"done", "killed"}
    /\ geo_run < MaxGeocoderRuns
    /\ geo_run' = geo_run + 1
    /\ geo_pc' = "start"
    /\ df_out' = <<>>
    /\ pending_keys' = <<>>
    /\ next_key' = 1
    /\ fresh' = <<>>
    /\ since_last_checkpoint' = 0
    /\ resume' = "done"
    /\ sent' = <<>>
    /\ flushes' = <<>>
    /\ UNCHANGED <<args, df_in, out_file, tmp_file, service, cache_at_start,
                   interrupted>>
    /\ UNCHANGED not_geocoder

GeoNext ==
    \/ LoadInputAndCache
    \/ GeocodeNext
    \/ FinalFlush
    \/ ToCsvBegin
    \/ ToCsvEnd
    \/ Replace
    \/ Kill
    \/ GeoRerun

SpecGeocoder == GeoInit /\ [][GeoNext]_geocoder_vars

----------------------------------------------------------------------------
(* etl/get_long_lat_from_address.py: NominatimClient                       *)
(*                                                                         *)
(* Times are in tenths of a second.                                        *)

\* the values of --sleep, passed as min_interval_s
SleepValues == {5, 15}

\* What the service does with one request: a result list with a hit, an
\* empty list, a retryable status, no connection at all, or a body that is
\* not JSON.
Answers ==
    {"found", "empty", "http_429", "http_503", "ConnectionError",
     "JSONDecodeError"}

\* session.get raises before any response arrives
raises_in_get(answer) == answer = "ConnectionError"

\* an empty result list counts as a status to retry
is_retryable_or_empty(answer) == answer \in {"http_429", "http_503", "empty"}

\* resp.status_code in (429, 502, 503, 504) or 500 <= resp.status_code < 600
is_retryable(answer) == answer \in {"http_429", "http_503"}

\* f"http_{resp.status_code}", f"exc:{type(e).__name__}"
last_err_of(answer) ==
    CASE answer = "ConnectionError" -> "exc:ConnectionError"
      [] answer = "JSONDecodeError" -> "exc:JSONDecodeError"
      [] OTHER -> answer

\* how long session.get takes: a refused connection fails at once
duration(answer) == IF raises_in_get(answer) THEN 0 ELSE 3

\* min(3.0, 0.5 * (2 ** attempt))
backoff(att) == IF 5 * (2 ^ att) < 30 THEN 5 * (2 ^ att) ELSE 30

\* NominatimClient(min_interval_s=args.sleep), lines 53-58
ClientInit ==
    /\ cl_pc = "idle"
    /\ now \in {0, 100}
    /\ \E sleep \in SleepValues :
          min_interval_s = IF sleep > 10 THEN sleep ELSE 10
    /\ last_ts = 0
    /\ retries \in {0, 2}
    /\ attempt = 0
    /\ last_err = "None"
    /\ answers = <<>>
    /\ result = <<>>
    /\ calls = 0
    /\ recent = <<>>
    /\ not_client_idle

\* geocode is called, some time after the previous call returned
ClientCall ==
    /\ cl_pc \in {"idle", "returned"}
    /\ calls < MaxCalls
    /\ calls' = calls + 1
    /\ \E gap \in {0, 7} : now' = now + gap
    /\ attempt' = 0
    /\ last_err' = "None"
    /\ answers' = <<>>
    /\ result' = <<>>
    /\ cl_pc' = "pace"
    /\ UNCHANGED <<min_interval_s, last_ts, retries, recent>>
    /\ UNCHANGED not_client

\* self._pace(), lines 60-64
Pace ==
    /\ cl_pc = "pace"
    /\ now' = IF now - last_ts < min_interval_s
              THEN now + (min_interval_s - (now - last_ts))
              ELSE now
    /\ cl_pc' = "get"
    /\ UNCHANGED <<min_interval_s, last_ts, retries, attempt, last_err,
                   answers, result, calls, recent>>
    /\ UNCHANGED not_client

\* session.get and what follows it up to the sleep or the return,
\* lines 99-112
Get ==
    /\ cl_pc = "get"
    /\ recent' = IF recent = <<>> THEN <<now>> ELSE <<recent[Len(recent)], now>>
    /\ \E answer \in Answers :
          /\ answers' = Append(answers, answer)
          /\ now' = now + duration(answer)
          /\ last_ts' = IF raises_in_get(answer) THEN last_ts
                        ELSE now + duration(answer)
          /\ IF raises_in_get(answer) \/ is_retryable(answer)
                \/ answer = "JSONDecodeError"
             THEN /\ last_err' = last_err_of(answer)
                  /\ cl_pc' = "sleep"
                  /\ UNCHANGED result
             ELSE /\ result' =
                        IF answer = "found"
                        THEN <<cell_float(34000), cell_float(31000), error_None>>
                        ELSE <<cell_None, cell_None, error_str("no_result")>>
                  /\ cl_pc' = "returned"
                  /\ UNCHANGED last_err
    /\ UNCHANGED <<min_interval_s, retries, attempt, calls>>
    /\ UNCHANGED not_client

\* time.sleep(min(3.0, 0.5 * (2 ** attempt))), the next turn of the loop,
\* and line 114 after the last turn
Sleep ==
    /\ cl_pc = "sleep"
    /\ now' = now + backoff(attempt)
    /\ attempt' = attempt + 1
    /\ IF attempt + 1 < retries + 1
       THEN /\ cl_pc' = "pace"
            /\ UNCHANGED result
       ELSE /\ cl_pc' = "returned"
            /\ result' = <<cell_None, cell_None,
                           error_str(IF last_err # "None" THEN last_err
                                     ELSE "error")>>
    /\ UNCHANGED <<min_interval_s, last_ts, retries, last_err, answers,
                   calls, recent>>
    /\ UNCHANGED not_client

ClientNext ==
    \/ ClientCall
    \/ Pace
    \/ Get
    \/ Sleep

SpecClient == ClientInit /\ [][ClientNext]_client_vars

----------------------------------------------------------------------------
(* etl/cbs_regions_loader.py                                               *)

\* The features a shapefile may hold: with a statistical-area id or
\* without one, and with a polygon, an empty geometry, a geometry of no
\* area, or a geometry that is not a polygon after repair.
Features ==
    [id : {[is |-> "int", v |-> 7], [is |-> "None", v |-> 0]},
     geometry : {"polygon", "empty", "zero_area", "unsupported"}]

\* str(raw_id) if raw_id is not None else f"SA_{idx:06d}"
lamas_code_of(raw_id, idx) ==
    IF raw_id.is # "None" THEN [prefix |-> "", digits |-> raw_id.v]
    ELSE [prefix |-> "SA_", digits |-> idx]

\* the feature is skipped (continue): lines 139-141, 151-153, 158-164
is_skipped(feature) == feature.geometry \in {"empty", "zero_area"}

\* a SELECT that finds no row, whatever the table holds
select_1_finds_nothing(table, lamas_code) == FALSE

\* SELECT 1 FROM regions WHERE lamas_code = %s; cur.fetchone() is not None
select_1(table, lamas_code) ==
    \E i \in DOMAIN table : table[i].lamas_code = lamas_code

\* UPDATE regions SET ..., updated_at = NOW() WHERE lamas_code = %s
update_regions(table, lamas_code, at) ==
    [i \in DOMAIN table |->
        IF table[i].lamas_code = lamas_code
        THEN [table[i] EXCEPT !.updated_at = at]
        ELSE table[i]]

\* INSERT INTO regions (lamas_code, ...) VALUES (...)
insert_regions(table, lamas_code, at) ==
    Append(table, [lamas_code |-> lamas_code, updated_at |-> at])

CbsInit ==
    /\ cbs_pc = "idle"
    /\ regions = <<>>
    /\ tx_regions = <<>>
    /\ seen = <<>>
    /\ inserted = 0
    /\ updated = 0
    /\ cbs_loads = 0
    /\ cbs_returned = <<>>
    /\ not_cbs_idle

\* load_cbs_statistical_areas(path) up to the loop, lines 98-122
CbsBegin ==
    /\ cbs_pc \in {"idle", "returned", "ValueError"}
    /\ cbs_loads < MaxLoads
    /\ cbs_loads' = cbs_loads + 1
    /\ tx_regions' = regions
    /\ seen' = <<>>
    /\ inserted' = 0
    /\ updated' = 0
    /\ cbs_returned' = <<>>
    /\ cbs_pc' = "loop"
    /\ UNCHANGED regions
    /\ UNCHANGED not_cbs

\* one turn of the loop over gdf.iterrows(), lines 122-216
CbsFeature ==
    /\ cbs_pc = "loop"
    /\ Len(seen) < MaxFeatures
    /\ \E feature \in Features :
          LET idx == Len(seen)
              lamas_code == lamas_code_of(feature.id, idx)
          IN /\ seen' = Append(seen, feature)
             /\ IF is_skipped(feature)
                THEN UNCHANGED <<tx_regions, inserted, updated, cbs_pc>>
                ELSE IF feature.geometry = "unsupported"
                THEN /\ cbs_pc' = "ValueError"
                     /\ tx_regions' = regions
                     /\ UNCHANGED <<inserted, updated>>
                ELSE IF select_1(tx_regions, lamas_code)
                THEN /\ tx_regions' = update_regions(tx_regions, lamas_code,
                                                     cbs_loads)
                     /\ updated' = updated + 1
                     /\ UNCHANGED <<inserted, cbs_pc>>
                ELSE /\ tx_regions' = insert_regions(tx_regions, lamas_code,
                                                     cbs_loads)
                     /\ inserted' = inserted + 1
                     /\ UNCHANGED <<updated, cbs_pc>>
    /\ UNCHANGED <<regions, cbs_loads, cbs_returned>>
    /\ UNCHANGED not_cbs

\* the rows are exhausted: conn.commit() and return, lines 218-220
CbsCommit ==
    /\ cbs_pc = "loop"
    /\ regions' = tx_regions
    /\ cbs_returned' = <<inserted, updated>>
    /\ cbs_pc' = "returned"
    /\ UNCHANGED <<tx_regions, seen, inserted, updated, cbs_loads>>
    /\ UNCHANGED not_cbs

CbsNext ==
    \/ CbsBegin
    \/ CbsFeature
    \/ CbsCommit

SpecCbs == CbsInit /\ [][CbsNext]_cbs_vars

----------------------------------------------------------------------------
(* api/main.py: GET /address/search                                        *)

\* the strings of at most n characters over a two-letter alphabet
RECURSIVE Strings(_)
Strings(n) ==
    IF n = 0 THEN {<<>>}
    ELSE Strings(n - 1)
           \cup {Append(str, c) : str \in {t \in Strings(n - 1) : Len(t) = n - 1},
                                  c \in {"a", "b"}}

\* GET /address/search with or without the query parameter q
AddressSearchRequests ==
    {[path |-> "/address/search", has_q |-> FALSE, q |-> <<>>]}
        \cup [path : {"/address/search"}, has_q : {TRUE}, q : Strings(MaxQueryLen)]

\* Query(..., min_length=2)
q_is_valid_min_length_2(request) == request.has_q /\ Len(request.q) >= 2

\* q: str = Query(..., min_length=3): required, at least 3 characters
q_is_valid(request) == request.has_q /\ Len(request.q) >= 3

ApiInit ==
    /\ api_pc = "idle"
    /\ api_request = <<>>
    /\ api_log = <<>>
    /\ not_api_idle

\* a request arrives
ApiReceive ==
    /\ api_pc = "idle"
    /\ Len(api_log) < MaxRequests
    /\ api_request' \in AddressSearchRequests
    /\ api_pc' = "validate"
    /\ UNCHANGED api_log
    /\ UNCHANGED not_api

\* FastAPI validates the parameters of address_search: a request that
\* fails is answered 422 and the function is not called
ApiValidate ==
    /\ api_pc = "validate"
    /\ IF q_is_valid(api_request)
       THEN /\ api_pc' = "address_search"
            /\ UNCHANGED <<api_request, api_log>>
       ELSE /\ api_log' = Append(api_log,
                    [request |-> api_request,
                     response |-> [status_code |-> 422,
                                   json |-> [detail |-> <<"q">>]]])
            /\ api_request' = <<>>
            /\ api_pc' = "idle"
    /\ UNCHANGED not_api

\* address_search(q), lines 45-48
ApiAddressSearch ==
    /\ api_pc = "address_search"
    /\ api_log' = Append(api_log,
            [request |-> api_request,
             response |-> [status_code |-> 200, json |-> [results |-> <<>>]]])
    /\ api_request' = <<>>
    /\ api_pc' = "idle"
    /\ UNCHANGED not_api

ApiNext ==
    \/ ApiReceive
    \/ ApiValidate
    \/ ApiAddressSearch

SpecApi == ApiInit /\ [][ApiNext]_api_vars

----------------------------------------------------------------------------
(* etl/get_data_from_gov_maps.py: fetch_all_geojson                        *)

PAGE == 5000

\* the numbers of features a layer may have: around every multiple of PAGE
FeatureCounts ==
    {n \in {k * PAGE + d : k \in 0..MaxPages, d \in {-1, 0, 1}} :
        n >= 0 /\ n <= MaxPages * PAGE}

\* What comes back for a page request: GeoJSON, a body that is not GeoJSON,
\* or the HTML shell on every retry (post raises RuntimeError).
PageAnswers == {"geojson", "not_geojson", "blocked"}

int_or_None(n) == [is |-> "int", v |-> n]

\* the whole page size is asked for, whatever is left
page_count_whole_page(total_, start_) == PAGE

\* min(PAGE, total - start)
page_count(total_, start_) ==
    IF PAGE < total_ - start_ THEN PAGE ELSE total_ - start_

\* the features the server puts on a page
features_on_page(start_, count) ==
    IF server_features - start_ <= 0 THEN 0
    ELSE IF count < server_features - start_ THEN count
    ELSE server_features - start_

GmInit ==
    /\ gm_pc = "hits"
    /\ server_features \in FeatureCounts
    /\ hits_answer \in {int_or_None(server_features), [is |-> "None", v |-> 0]}
    /\ total_hits = [is |-> "None", v |-> 0]
    /\ start = 0
    /\ chunks = <<>>
    /\ requested = <<>>
    /\ not_govmap_idle

\* total_hits = get_hits_wfs20(...) and the choice of the path, lines 128-130, 140
GmHits ==
    /\ gm_pc = "hits"
    /\ total_hits' = hits_answer
    /\ gm_pc' = IF hits_answer.is = "int" /\ hits_answer.v > 0
                THEN "wfs20" ELSE "wfs11"
    /\ start' = 0
    /\ UNCHANGED <<server_features, hits_answer, chunks, requested>>
    /\ UNCHANGED not_govmap

\* one turn of `for start in range(0, total, PAGE)`, lines 130-135
GmPage20 ==
    /\ gm_pc = "wfs20"
    /\ start < total_hits.v
    /\ LET count == page_count(total_hits.v, start)
       IN /\ requested' = Append(requested, [start |-> start, count |-> count])
          /\ \E b \in PageAnswers :
                IF b = "geojson"
                THEN /\ chunks' = Append(chunks,
                            [start |-> start,
                             features |-> features_on_page(start, count)])
                     /\ start' = start + PAGE
                     /\ UNCHANGED gm_pc
                ELSE /\ gm_pc' = "RuntimeError"
                     /\ UNCHANGED <<chunks, start>>
    /\ UNCHANGED <<server_features, hits_answer, total_hits>>
    /\ UNCHANGED not_govmap

\* the range is exhausted: return chunks, line 136
GmReturn20 ==
    /\ gm_pc = "wfs20"
    /\ start >= total_hits.v
    /\ gm_pc' = "returned"
    /\ UNCHANGED <<server_features, hits_answer, total_hits, start,
                   chunks, requested>>
    /\ UNCHANGED not_govmap

\* one turn of the WFS 1.1.0 loop and what follows it, lines 141-166
GmPage11 ==
    /\ gm_pc = "wfs11"
    /\ requested' = Append(requested, [start |-> start, count |-> PAGE])
    /\ \E b \in PageAnswers :
          LET f_count == features_on_page(start, PAGE)
          IN IF b = "geojson" /\ f_count > 0
             THEN /\ chunks' = Append(chunks,
                         [start |-> start, features |-> f_count])
                  /\ start' = start + PAGE
                  /\ UNCHANGED gm_pc
             ELSE /\ gm_pc' = IF b = "geojson" /\ chunks # <<>>
                              THEN "returned" ELSE "RuntimeError"
                  /\ UNCHANGED <<chunks, start>>
    /\ UNCHANGED <<server_features, hits_answer, total_hits>>
    /\ UNCHANGED not_govmap

GmNext ==
    \/ GmHits
    \/ GmPage20
    \/ GmReturn20
    \/ GmPage11

SpecGovMap == GmInit /\ [][GmNext]_govmap_vars

----------------------------------------------------------------------------
(* backend/main.py: GET /pois/{poi_id} and GET /pois/near                  *)
(*                                                                         *)
(* A path is the sequence of its segments.  Coordinates are in             *)
(* micro-degrees, radius_km in km, distance_km in 1/100 km.                *)

\* the GET routes of app, in the order of their registration
Routes ==
    << [path |-> <<>>, endpoint |-> "read_root"],
       [path |-> <<"pois">>, endpoint |-> "get_all_pois"],
       [path |-> <<"pois", "{poi_id}">>, endpoint |-> "get_poi_by_id"],
       [path |-> <<"pois", "near">>, endpoint |-> "get_pois_near"],
       [path |-> <<"types">>, endpoint |-> "get_poi_types"],
       [path |-> <<"debug", "stats">>, endpoint |-> "debug_stats"] >>

\* the route's path matches the request's: a {parameter} matches any segment
route_matches(route, path) ==
    /\ Len(route.path) = Len(path)
    /\ \A i \in DOMAIN path :
           route.path[i] = path[i] \/ route.path[i] = "{poi_id}"

\* Variant: the router takes the last route that matches.
last_match(path) ==
    LET hits == {i \in DOMAIN Routes : route_matches(Routes[i], path)}
    IN Routes[CHOOSE i \in hits : \A j \in hits : j <= i]

\* the router takes the first route that matches
first_match(path) ==
    LET hits == {i \in DOMAIN Routes : route_matches(Routes[i], path)}
    IN Routes[CHOOSE i \in hits : \A j \in hits : i <= j]

\* poi_id: int, from the path segment
parse_int(segment) ==
    CASE segment = "1" -> [ok |-> TRUE, v |-> 1]
      [] segment = "2" -> [ok |-> TRUE, v |-> 2]
      [] segment = "9" -> [ok |-> TRUE, v |-> 9]
      [] OTHER -> [ok |-> FALSE, v |-> 0]

\* a POI as load_mosdot_data makes it
Poi(id, type, site) ==
    [id |-> id, type |-> type, latitude |-> Sites[site][1],
     longitude |-> Sites[site][2]]

\* pois_data = load_mosdot_data(): no mosdot.csv, or one with three rows
PoisDataValues ==
    { <<>>,
      <<Poi(1, "schools", 3), Poi(2, "kindergartens", 1), Poi(3, "schools", 7)>> }

\* the requests: /pois/<segment> with the query of /pois/near
BackendRequests ==
    [path : {<<"pois", "near">>, <<"pois", "1">>, <<"pois", "9">>},
     lat : {HoodPoints[1][1]}, lon : {HoodPoints[1][2]},
     radius_km : {1, 5},
     poi_type : {"None", "schools"}]

\* calculate_distance: R * c with R = 6371, in units of 1e-7 km
calculate_distance(lat1, lon1, lat2, lon2) ==
    6371 * haversine(lat1, lon1, lat2, lon2)

\* nearby_pois.sort(key=lambda x: x['distance_km']): stable, ascending
RECURSIVE sort_by_distance_km(_)
sort_by_distance_km(items) ==
    IF items = <<>> THEN <<>>
    ELSE LET front == sort_by_distance_km(SubSeq(items, 1, Len(items) - 1))
             last == items[Len(items)]
             before == SelectSeq(front, LAMBDA x : x.distance_km <= last.distance_km)
             after == SelectSeq(front, LAMBDA x : x.distance_km > last.distance_km)
         IN before \o <<last>> \o after

\* get_pois_near(lat, lon, radius_km, poi_type), lines 150-183
get_pois_near(request) ==
    LET distance(poi) == calculate_distance(request.lat, request.lon,
                                            poi.latitude, poi.longitude)
        keep(poi) ==
            /\ poi.latitude # 0 /\ poi.longitude # 0
            /\ distance(poi) <= request.radius_km * 10000000
            /\ request.poi_type = "None" \/ poi.type = request.poi_type
        kept == SelectSeq(pois_data, keep)
        nearby_pois ==
            [i \in DOMAIN kept |->
                [id |-> kept[i].id, type |-> kept[i].type,
                 latitude |-> kept[i].latitude,
                 longitude |-> kept[i].longitude,
                 distance_km |-> RoundHalfEven(distance(kept[i]), 100000)]]
    IN [status_code |-> 200, endpoint |-> "get_pois_near",
        json |-> [pois |-> sort_by_distance_km(nearby_pois),
                  total |-> Len(nearby_pois),
                  search_center |-> [latitude |-> request.lat,
                                     longitude |-> request.lon],
                  radius_km |-> request.radius_km]]

\* get_poi_by_id(poi_id), lines 142-148, with the validation of poi_id: int
\* that comes before it (422 when the segment is not an integer)
get_poi_by_id(request) ==
    LET poi_id == parse_int(request.path[2])
        found == SelectSeq(pois_data, LAMBDA p : p.id = poi_id.v)
    IN IF ~poi_id.ok
       THEN [status_code |-> 422, endpoint |-> "get_poi_by_id",
             json |-> [detail |-> <<"poi_id">>]]
       ELSE [status_code |-> 200, endpoint |-> "get_poi_by_id",
             json |-> IF found = <<>> THEN [error |-> "POI not found"]
                      ELSE found[1]]

BackendInit ==
    /\ pois_data \in PoisDataValues
    /\ be_pc = "idle"
    /\ be_request = <<>>
    /\ be_log = <<>>
    /\ not_backend_idle

\* a request arrives
BackendReceive ==
    /\ be_pc = "idle"
    /\ Len(be_log) < MaxBackendRequests
    /\ be_request' \in BackendRequests
    /\ be_pc' = "route"
    /\ UNCHANGED <<pois_data, be_log>>
    /\ UNCHANGED not_backend

\* the router picks the endpoint and the endpoint answers
BackendRespond ==
    /\ be_pc = "route"
    /\ LET endpoint == first_match(be_request.path).endpoint
           response == IF endpoint = "get_pois_near"
                       THEN get_pois_near(be_request)
                       ELSE get_poi_by_id(be_request)
       IN be_log' = Append(be_log, [request |-> be_request,
                                    response |-> response])
    /\ be_request' = <<>>
    /\ be_pc' = "idle"
    /\ UNCHANGED pois_data
    /\ UNCHANGED not_backend

BackendNext ==
    \/ BackendReceive
    \/ BackendRespond

SpecBackend == BackendInit /\ [][BackendNext]_backend_vars

----------------------------------------------------------------------------
(* Properties of etl/get_long_lat_from_address.py                          *)

\* the rows of the output CSV as the current run found it, with their keys
CachedRows == with_address_key(read_csv(cache_at_start), args.country)

\* C21: the output CSV is the cache.  No address that was sent to the
\* geocoding service during a run has, in the output CSV the run started
\* from, a row with both lon and lat: only rows missing lon or lat are
\* geocoded.
C21_CachedNeverSentAgain ==
    LET cached == CachedRows
    IN \A i \in DOMAIN sent : \A j \in DOMAIN cached :
           cached[j].address_key = sent[i].key => is_missing(cached[j])

\* a re-run that found some addresses in the cache and sent only the others
C21_Witness ==
    /\ geo_run = 2
    /\ geo_pc = "done"
    /\ sent # <<>>
    /\ \E j \in DOMAIN CachedRows : ~is_missing(CachedRows[j])
    /\ \E j \in DOMAIN CachedRows : is_missing(CachedRows[j])

\* the line of an output CSV for an input row
SameInputRow(line, row) ==
    /\ line.mosad = row.mosad
    /\ line.ktovet = row.ktovet
    /\ line.yishuv = row.yishuv

\* C22: the geocoder is safe to stop and re-run.  Wherever a run is
\* stopped, the output path holds no file or a completely written one,
\* never a partly written one; and a run that ends, after any earlier runs
\* were stopped, leaves every input row in the output, with the coordinates
\* the snapshot it started from already had.
C22_SafeToStopAndRerun ==
    /\ out_file.state \in {"absent", "complete"}
    /\ geo_pc = "done" =>
          /\ \A i \in DOMAIN df_in : \E j \in DOMAIN out_file.rows :
                 SameInputRow(out_file.rows[j], df_in[i])
          /\ \A c \in DOMAIN cache_at_start.rows :
                 LET old == cache_at_start.rows[c]
                 IN ~old.lon.empty /\ ~old.lat.empty =>
                       \E j \in DOMAIN out_file.rows :
                           /\ SameInputRow(out_file.rows[j], old)
                           /\ out_file.rows[j].lon = old.lon
                           /\ out_file.rows[j].lat = old.lat

\* a run stopped in the middle of its final write, after a checkpoint, and
\* the next run, which geocodes only what the checkpoint did not hold
C22_Witness ==
    /\ geo_pc = "done"
    /\ geo_run = 2
    /\ "to_csv_partial" \in interrupted
    /\ cache_at_start.state = "complete"
    /\ sent # <<>>
    /\ Len(sent) < Len(df_in)

\* the smaller of two numbers
Min(a, b) == IF a < b THEN a ELSE b

\* C26: with --checkpoint-every N the output CSV is written after every N
\* newly geocoded addresses, for every positive N, and once more at the
\* end when results remain unflushed: a finished run that geocoded n
\* addresses has written after the N-th, the 2N-th, ... and after the
\* n-th of them.
C26_WritesEveryN ==
    geo_pc = "done" /\ sent # <<>> =>
        LET N == args.checkpoint_every
            n == Len(sent)
        IN flushes = [i \in 1..((n + N - 1) \div N) |-> Min(i * N, n)]

\* C30: after any number of runs over the same input the output CSV has
\* exactly one row per input row, also when an (address, city) pair is on
\* more than one input row.
C30_OneOutputRowPerInputRow ==
    out_file.state = "complete" =>
        /\ Len(out_file.rows) = Len(df_in)
        /\ \A i \in DOMAIN df_in : SameInputRow(out_file.rows[i], df_in[i])

----------------------------------------------------------------------------
(* Properties of NominatimClient                                           *)

\* C23: the client respects the rate limit.  Any two consecutive requests
\* of one client, retries after an HTTP error or an exception included, are
\* sent at least min_interval_s apart, and min_interval_s is at least one
\* second whatever --sleep is.
C23_RequestsAtLeastMinIntervalApart ==
    /\ min_interval_s >= 10
    /\ Len(recent) = 2 => recent[2] - recent[1] >= min_interval_s

\* C27: geocode sends at most retries + 1 requests and returns
\* (lon, lat, error) with error None exactly when lon and lat are present.
\* The first answer with a hit ends the call with (lon, lat, None); an
\* empty answer ends it with (None, None, "no_result"), without a retry;
\* when every attempt meets a retryable status or an exception the call
\* ends after retries + 1 requests with (None, None, last error).
C27_GeocodeTerminatesWithResult ==
    /\ Len(answers) <= retries + 1
    /\ cl_pc \in {"pace", "get", "sleep"} =>
          /\ attempt <= retries
          /\ \A i \in DOMAIN answers : answers[i] \notin {"found", "empty"}
    /\ cl_pc = "returned" =>
          LET n == Len(answers)
          IN /\ n >= 1
             /\ Len(result) = 3
             /\ (result[3] = error_None)
                    <=> (~isna(result[1]) /\ ~isna(result[2]))
             /\ \A i \in 1..(n - 1) : answers[i] \notin {"found", "empty"}
             /\ answers[n] = "found" =>
                    /\ result[1].is = "float"
                    /\ result[2].is = "float"
                    /\ result[3] = error_None
             /\ answers[n] = "empty" =>
                    result = <<cell_None, cell_None, error_str("no_result")>>
             /\ answers[n] \notin {"found", "empty"} =>
                    /\ n = retries + 1
                    /\ result = <<cell_None, cell_None,
                                  error_str(last_err_of(answers[n]))>>

\* a call that met a retryable status, then an exception, then a hit, and
\* the call after it, which gave up after retries + 1 failures
C27_Witness ==
    /\ cl_pc = "returned"
    /\ calls = 2
    /\ retries = 2
    /\ Len(answers) = 3
    /\ answers[1] = "http_503"
    /\ answers[3] = "ConnectionError"
    /\ result[3] = error_str("exc:ConnectionError")

----------------------------------------------------------------------------
(* Properties of etl/cbs_regions_loader.py                                 *)

\* no two rows of the table have the same lamas_code
OneRowPerLamasCode(table) ==
    \A i, j \in DOMAIN table :
        table[i].lamas_code = table[j].lamas_code => i = j

\* C24: the loader upserts on lamas_code.  A processed feature is inserted
\* when no row has its lamas_code and updates the existing row otherwise
\* (so the table grows by the number of inserts only), after any sequence
\* of loads the table has at most one row per lamas_code, and the returned
\* inserted + updated is the number of features that were not skipped.
C24_UpsertOnLamasCode ==
    /\ OneRowPerLamasCode(regions)
    /\ OneRowPerLamasCode(tx_regions)
    /\ cbs_pc = "loop" => Len(tx_regions) = Len(regions) + inserted
    /\ cbs_pc = "returned" =>
          cbs_returned[1] + cbs_returned[2]
              = Cardinality({i \in DOMAIN seen : ~is_skipped(seen[i])})

\* a second load that inserted a feature, updated a row of the first load
\* and skipped a feature
C24_Witness ==
    /\ cbs_pc = "returned"
    /\ cbs_loads = 2
    /\ cbs_returned = <<1, 1>>
    /\ \E i \in DOMAIN seen : is_skipped(seen[i])
    /\ \E i, j \in DOMAIN regions :
          i < j /\ regions[i].updated_at = 2 /\ regions[j].updated_at = 2

----------------------------------------------------------------------------
(* Properties of api/main.py                                               *)

\* C25: GET /address/search accepts a request only when q is present and
\* has at least 3 characters, and then answers 200 with a results list; a
\* request without q or with a shorter q is answered 422.
C25_AddressSearchValidatesQ ==
    \A i \in DOMAIN api_log :
        LET request == api_log[i].request
            response == api_log[i].response
        IN IF request.has_q /\ Len(request.q) >= 3
           THEN /\ response.status_code = 200
                /\ "results" \in DOMAIN response.json
                /\ DOMAIN response.json.results = 1..Len(response.json.results)
           ELSE response.status_code = 422

\* a request without q and a request with a q of exactly 3 characters,
\* both answered
C25_Witness ==
    /\ Len(api_log) = 2
    /\ ~api_log[1].request.has_q
    /\ api_log[1].response.status_code = 422
    /\ Len(api_log[2].request.q) = 3
    /\ api_log[2].response.status_code = 200

----------------------------------------------------------------------------
(* Properties of etl/get_data_from_gov_maps.py                             *)

\* C28: when the hits request reports total > 0, the pages requested have
\* the start indices 0, PAGE, 2*PAGE, ... and the counts
\* min(PAGE, total - start); when the function returns, the requested
\* index ranges are pairwise disjoint and cover exactly [0, total), and
\* there is one chunk per page, in the order of the start indices.
C28_PagesCoverAllFeatures ==
    total_hits.is = "int" /\ total_hits.v > 0 =>
        /\ \A i \in DOMAIN requested :
               /\ requested[i].start = (i - 1) * PAGE
               /\ requested[i].count =
                      IF total_hits.v - requested[i].start < PAGE
                      THEN total_hits.v - requested[i].start ELSE PAGE
        /\ gm_pc = "returned" =>
               /\ \A k \in 0..(total_hits.v - 1) :
                      Cardinality({i \in DOMAIN requested :
                          /\ requested[i].start <= k
                          /\ k < requested[i].start + requested[i].count}) = 1
               /\ \A i \in DOMAIN requested :
                      /\ requested[i].start >= 0
                      /\ requested[i].count > 0
                      /\ requested[i].start + requested[i].count <= total_hits.v
               /\ Len(chunks) = Len(requested)
               /\ \A i \in DOMAIN chunks :
                      chunks[i].start = requested[i].start

\* a layer of two full pages and one feature more, fetched in three pages
C28_Witness ==
    /\ gm_pc = "returned"
    /\ total_hits = int_or_None(2 * PAGE + 1)
    /\ Len(chunks) = 3
    /\ requested[3] = [start |-> 2 * PAGE, count |-> 1]

----------------------------------------------------------------------------
(* Properties of backend/main.py                                           *)

\* C29: a GET request to /pois/near with valid lat and lon is handled by
\* get_pois_near and returns exactly the loaded POIs (of poi_type, when it
\* is given) whose distance to the point is at most radius_km, sorted by
\* ascending distance, with total the number of POIs returned.
C29_PoisNearHandledByGetPoisNear ==
    \A n \in DOMAIN be_log :
        LET request == be_log[n].request
            response == be_log[n].response
            near(poi) ==
                /\ calculate_distance(request.lat, request.lon,
                                      poi.latitude, poi.longitude)
                       <= request.radius_km * 10000000
                /\ request.poi_type = "None" \/ poi.type = request.poi_type
        IN request.path = <<"pois", "near">> =>
              /\ response.endpoint = "get_pois_near"
              /\ response.status_code = 200
              /\ {response.json.pois[i].id : i \in DOMAIN response.json.pois}
                     = {pois_data[i].id : i \in {j \in DOMAIN pois_data :
                                                    near(pois_data[j])}}
              /\ \A i, j \in DOMAIN response.json.pois :
                     i < j => response.json.pois[i].distance_km
                                 <= response.json.pois[j].distance_km
              /\ response.json.total = Len(response.json.pois)

====
